---- MODULE Spec2Model ----
(***************************************************************************)
(* A model of pymafx/utils/geometry.py: the rotation conversions, the      *)
(* twist decomposition, the perspective projection and the least-squares   *)
(* translation estimator.                                                  *)
(*                                                                         *)
(* Numbers.  A tensor element is a triple <<n, d, e>> standing for the     *)
(* real (n/d) * Guard^e, where Guard = 1e-9 is the unit of the small       *)
(* guards the code adds to divisors (1e-8, 1e-9, 1e-12):                   *)
(*   - d > 0, gcd(n, d) = 1: a finite value; zero is <<0, 1, 0>>;          *)
(*   - d = 0: a non-finite value, <<1,0,0>> = +Inf, <<-1,0,0>> = -Inf,     *)
(*     <<0,0,0>> = NaN, with the IEEE rules x/0 = Inf, 0/0 = NaN,          *)
(*     Inf*0 = NaN, Inf-Inf = NaN, x/Inf = 0.                              *)
(* Arithmetic on values of the same order e is exact rational arithmetic.  *)
(* A sum of two values of different order is the value of lower order: the *)
(* other one is at least nine decimal digits smaller and is lost in the    *)
(* rounding of the float32 sum (1 + 1e-9 = 1); the values of order 0 are   *)
(* fractions of numerator and denominator below Limit, none of which lies  *)
(* between 0 and 1e-6.  Sqrt is exact on squares of rationals and rounds   *)
(* down otherwise; a result too long for Limit is rounded.  The inputs the *)
(* specifications draw are chosen so that the results are exact wherever a *)
(* property compares them for equality.  The float64 rounding inside       *)
(* np.linalg.solve is a choice of the environment (see linalg_solve).      *)
(***************************************************************************)
EXTENDS Integers, Sequences, FiniteSets, TLC

VARIABLES pc, fn, arg, tmp, ret, i, trans

vars == <<pc, fn, arg, tmp, ret, i, trans>>

----------------------------------------------------------------------------
(* Scalar arithmetic                                                       *)

Abs(n) == IF n < 0 THEN -n ELSE n

Sgn(n) == IF n > 0 THEN 1 ELSE IF n < 0 THEN -1 ELSE 0

RECURSIVE Gcd(_, _)
Gcd(a, b) == IF b = 0 THEN a ELSE Gcd(b, a % b)

\* Numerators and denominators are kept below Limit, so that the products
\* of two of them fit a machine integer.
Limit == 32768 - 1

\* A result too long to be kept exactly is rounded towards zero to a
\* shorter fraction; beyond the range it becomes Inf or 0.
Shortened(n, e, n2, d2) ==
    IF d2 = 0 THEN <<Sgn(n), 0, 0>>
    ELSE IF n2 = 0 THEN <<0, 1, 0>>
    ELSE <<Sgn(n) * (n2 \div Gcd(n2, d2)), d2 \div Gcd(n2, d2), e>>

Shorten(n, d, e, k) == Shortened(n, e, Abs(n) \div k, d \div k)

Round(n, d, e) == Shorten(n, d, e, ((IF Abs(n) > d THEN Abs(n) ELSE d) \div Limit) + 1)

\* A fraction in lowest terms, rounded when it is too long.
Fit(n1, d1, e) ==
    IF Abs(n1) > Limit \/ d1 > Limit THEN Round(n1, d1, e) ELSE <<n1, d1, e>>

Reduced(n, d, e, g) == Fit(Sgn(d) * Sgn(n) * (Abs(n) \div g), Abs(d) \div g, e)

\* The normal form of (n/d) * Guard^e.
Mk(n, d, e) ==
    IF d = 0 THEN <<Sgn(n), 0, 0>>
    ELSE IF n = 0 THEN <<0, 1, 0>>
    ELSE Reduced(n, d, e, Gcd(Abs(n), Abs(d)))

Num(n) == <<n, 1, 0>>
Rat(n, d) == Mk(n, d, 0)
Zero == <<0, 1, 0>>
One == <<1, 1, 0>>
Two == <<2, 1, 0>>
Half == <<1, 2, 0>>
NaN == <<0, 0, 0>>
Inf == <<1, 0, 0>>

IsFinite(x) == x[2] # 0
IsNaN(x) == x[2] = 0 /\ x[1] = 0
IsZero(x) == x[2] # 0 /\ x[1] = 0
Sign(x) == x[1]

Neg(x) == <<-x[1], x[2], x[3]>>

Mul(x, y) == Mk(x[1] * y[1], x[2] * y[2], x[3] + y[3])

Recip(x) == Mk(x[2], x[1], -x[3])

Div(x, y) == Mul(x, Recip(y))

Add(x, y) ==
    IF ~IsFinite(x) \/ ~IsFinite(y)
    THEN IF IsFinite(y) THEN x
         ELSE IF IsFinite(x) THEN y
         ELSE IF x = y THEN x ELSE NaN
    ELSE IF IsZero(x) THEN y
    ELSE IF IsZero(y) THEN x
    ELSE IF x[3] < y[3] THEN x
    ELSE IF y[3] < x[3] THEN y
    ELSE Mk(x[1] * y[2] + y[1] * x[2], x[2] * y[2], x[3])

Sub(x, y) == Add(x, Neg(y))

\* Comparisons are false on NaN, as in IEEE arithmetic.
Less(x, y) == ~IsNaN(x) /\ ~IsNaN(y) /\ x # y /\ Sign(Sub(x, y)) < 0
Greater(x, y) == Less(y, x)

Max(x, y) == IF Less(x, y) THEN y ELSE x

Pow2(x) == Mul(x, x)

RECURSIVE ISqrtIn(_, _, _)
ISqrtIn(n, lo, hi) ==
    IF lo >= hi THEN lo
    ELSE LET mid == (lo + hi + 1) \div 2
         IN  IF mid * mid <= n THEN ISqrtIn(n, mid, hi) ELSE ISqrtIn(n, lo, mid - 1)

\* The integer part of the square root of n >= 0.
ISqrt(n) == ISqrtIn(n, 0, IF n < 46340 THEN n ELSE 46340)

IsSquare(n) == n >= 0 /\ ISqrt(n) * ISqrt(n) = n

\* torch.sqrt / np.sqrt: NaN below zero, exact on squares, rounded down
\* to the denominator's precision otherwise.
Sqrt(x) ==
    IF ~IsFinite(x) THEN (IF x = Inf THEN Inf ELSE NaN)
    ELSE IF x[1] < 0 THEN NaN
    ELSE IF IsSquare(x[1]) /\ IsSquare(x[2]) /\ x[3] % 2 = 0
         THEN Mk(ISqrt(x[1]), ISqrt(x[2]), x[3] \div 2)
    ELSE IF x[3] % 2 = 0
         THEN Mk(ISqrt(x[1] * x[2]), x[2], x[3] \div 2)
    ELSE \* an odd order: sqrt(Guard) = 1/31623 of order 0
         Mk(ISqrt(x[1] * x[2]), x[2] * 31623, (x[3] - 1) \div 2)

----------------------------------------------------------------------------
(* Tensors: a shape and the elements in row-major order.  Indices are      *)
(* counted from 0, as in the source.                                       *)

Tensor(shape, data) == [shape |-> shape, data |-> data]

\* An exception leaving the function.
Raise(name) == [err |-> name]

IsErr(r) == "err" \in DOMAIN r

RECURSIVE Numel(_)
Numel(shape) == IF shape = <<>> THEN 1 ELSE Head(shape) * Numel(Tail(shape))

At2(t, b, k) == t.data[b * t.shape[2] + k + 1]

At3(t, b, r, c) == t.data[(b * t.shape[2] + r) * t.shape[3] + c + 1]

\* The rows of length w of a flat sequence, and back.
Rows(data, w) == [b \in 1..(Len(data) \div w) |-> SubSeq(data, (b - 1) * w + 1, b * w)]

Flat(rows, w) == [j \in 1..(Len(rows) * w) |-> rows[((j - 1) \div w) + 1][((j - 1) % w) + 1]]

RECURSIVE SumSeq(_)
SumSeq(v) == IF v = <<>> THEN Zero ELSE Add(SumSeq(SubSeq(v, 1, Len(v) - 1)), v[Len(v)])

Dot(u, v) == SumSeq([k \in 1..Len(u) |-> Mul(u[k], v[k])])

\* torch.norm(p=2) of one row.
VNorm(v) == Sqrt(SumSeq([k \in 1..Len(v) |-> Pow2(v[k])]))

Scale(v, s) == [k \in 1..Len(v) |-> Mul(v[k], s)]

VDiv(v, s) == [k \in 1..Len(v) |-> Div(v[k], s)]

VAdd(u, v) == [k \in 1..Len(u) |-> Add(u[k], v[k])]

VSub(u, v) == [k \in 1..Len(u) |-> Sub(u[k], v[k])]

Cross(u, v) ==
    << Sub(Mul(u[2], v[3]), Mul(u[3], v[2])),
       Sub(Mul(u[3], v[1]), Mul(u[1], v[3])),
       Sub(Mul(u[1], v[2]), Mul(u[2], v[1])) >>

----------------------------------------------------------------------------
(* quat_to_rotmat, quaternion_to_rotation_matrix                           *)

\* The same item with the factor w dropped from the products wx, wy, wz.
quat_to_rotmat_item_dropped_w(q) ==
    LET norm == VNorm(q)
        w == Div(q[1], norm)
        x == Div(q[2], norm)
        y == Div(q[3], norm)
        z == Div(q[4], norm)
        w2 == Pow2(w)
        x2 == Pow2(x)
        y2 == Pow2(y)
        z2 == Pow2(z)
        wx == x
        wy == y
        wz == z
        xy == Mul(x, y)
        xz == Mul(x, z)
        yz == Mul(y, z)
    IN  << Sub(Sub(Add(w2, x2), y2), z2),
           Sub(Mul(Two, xy), Mul(Two, wz)),
           Add(Mul(Two, wy), Mul(Two, xz)),
           Add(Mul(Two, wz), Mul(Two, xy)),
           Sub(Add(Sub(w2, x2), y2), z2),
           Sub(Mul(Two, yz), Mul(Two, wx)),
           Sub(Mul(Two, xz), Mul(Two, wy)),
           Add(Mul(Two, wx), Mul(Two, yz)),
           Add(Sub(Sub(w2, x2), y2), z2) >>

\* One batch item of quat_to_rotmat: q holds the item's components along
\* dimension 1 (all of them enter the norm, the first four are w, x, y, z).
quat_to_rotmat_item(q) ==
    LET norm == VNorm(q)
        w == Div(q[1], norm)
        x == Div(q[2], norm)
        y == Div(q[3], norm)
        z == Div(q[4], norm)
        w2 == Pow2(w)
        x2 == Pow2(x)
        y2 == Pow2(y)
        z2 == Pow2(z)
        wx == Mul(w, x)
        wy == Mul(w, y)
        wz == Mul(w, z)
        xy == Mul(x, y)
        xz == Mul(x, z)
        yz == Mul(y, z)
    IN  << Sub(Sub(Add(w2, x2), y2), z2),
           Sub(Mul(Two, xy), Mul(Two, wz)),
           Add(Mul(Two, wy), Mul(Two, xz)),
           Add(Mul(Two, wz), Mul(Two, xy)),
           Sub(Add(Sub(w2, x2), y2), z2),
           Sub(Mul(Two, yz), Mul(Two, wx)),
           Sub(Mul(Two, xz), Mul(Two, wy)),
           Add(Mul(Two, wx), Mul(Two, yz)),
           Add(Sub(Sub(w2, x2), y2), z2) >>

\* quat: a tensor.  norm(dim=1) needs a second dimension, the indices 0..3
\* need four entries along it, and view(B, 3, 3) needs 9 values per item.
quat_to_rotmat(quat) ==
    IF Len(quat.shape) < 2 THEN Raise("IndexError")
    ELSE LET B == quat.shape[1]
             D == quat.shape[2]
             E == Numel(SubSeq(quat.shape, 3, Len(quat.shape)))
         IN  IF D < 4 THEN Raise("IndexError")
             ELSE IF E # 1 THEN Raise("RuntimeError")
             ELSE LET items == [b \in 1..B |-> quat_to_rotmat_item(Rows(quat.data, D)[b])]
                  IN  Tensor(<<B, 3, 3>>, Flat(items, 9))

quaternion_to_rotation_matrix_item(q) ==
    LET norm == VNorm(q)
        w == Div(q[1], norm)
        x == Div(q[2], norm)
        y == Div(q[3], norm)
        z == Div(q[4], norm)
        w2 == Pow2(w)
        x2 == Pow2(x)
        y2 == Pow2(y)
        z2 == Pow2(z)
        wx == Mul(w, x)
        wy == Mul(w, y)
        wz == Mul(w, z)
        xy == Mul(x, y)
        xz == Mul(x, z)
        yz == Mul(y, z)
    IN  << Sub(Sub(Add(w2, x2), y2), z2),
           Sub(Mul(Two, xy), Mul(Two, wz)),
           Add(Mul(Two, wy), Mul(Two, xz)),
           Add(Mul(Two, wz), Mul(Two, xy)),
           Sub(Add(Sub(w2, x2), y2), z2),
           Sub(Mul(Two, yz), Mul(Two, wx)),
           Sub(Mul(Two, xz), Mul(Two, wy)),
           Add(Mul(Two, wx), Mul(Two, yz)),
           Add(Sub(Sub(w2, x2), y2), z2) >>

quaternion_to_rotation_matrix(quat) ==
    IF Len(quat.shape) < 2 THEN Raise("IndexError")
    ELSE LET B == quat.shape[1]
             D == quat.shape[2]
             E == Numel(SubSeq(quat.shape, 3, Len(quat.shape)))
         IN  IF D < 4 THEN Raise("IndexError")
             ELSE IF E # 1 THEN Raise("RuntimeError")
             ELSE LET items == [b \in 1..B |->
                                   quaternion_to_rotation_matrix_item(Rows(quat.data, D)[b])]
                  IN  Tensor(<<B, 3, 3>>, Flat(items, 9))

----------------------------------------------------------------------------
(* rotation_matrix_to_quaternion                                           *)

\* The default of the parameter eps, 1e-6 = 1000 * Guard.
Eps6 == <<1000, 1, 1>>

Mask(b) == IF b THEN One ELSE Zero

\* The masks of a conversion that takes the branch of the trace (c3) for
\* every matrix.
branch_masks_trace_only(rotation_matrix, b, eps) == <<FALSE, FALSE, FALSE, TRUE>>

\* The four branch masks mask_c0..mask_c3 of one batch item;
\* rt(r, c) is rmat_t[:, r, c], the transposed input.
branch_masks(rotation_matrix, b, eps) ==
    LET rt(r, c) == At3(rotation_matrix, b, c, r)
        mask_d2 == Less(rt(2, 2), eps)
        mask_d0_d1 == Greater(rt(0, 0), rt(1, 1))
        mask_d0_nd1 == Less(rt(0, 0), Neg(rt(1, 1)))
    IN  << mask_d2 /\ mask_d0_d1, mask_d2 /\ ~mask_d0_d1,
           ~mask_d2 /\ mask_d0_nd1, ~mask_d2 /\ ~mask_d0_nd1 >>

\* The terms t0..t3 of one batch item.
branch_terms(rotation_matrix, b) ==
    LET rt(r, c) == At3(rotation_matrix, b, c, r)
    IN  << Sub(Sub(Add(One, rt(0, 0)), rt(1, 1)), rt(2, 2)),
           Sub(Add(Sub(One, rt(0, 0)), rt(1, 1)), rt(2, 2)),
           Add(Sub(Sub(One, rt(0, 0)), rt(1, 1)), rt(2, 2)),
           Add(Add(Add(One, rt(0, 0)), rt(1, 1)), rt(2, 2)) >>

\* The same item with the transposition left out: q0..q3 read the input's
\* own entries, which gives the quaternion of the inverse rotation.
rotation_matrix_to_quaternion_item_untransposed(rotation_matrix, b, eps) ==
    LET rt(r, c) == At3(rotation_matrix, b, r, c)
        t == branch_terms(rotation_matrix, b)
        m == branch_masks(rotation_matrix, b, eps)
        q0 == << Sub(rt(1, 2), rt(2, 1)), t[1],
                 Add(rt(0, 1), rt(1, 0)), Add(rt(2, 0), rt(0, 2)) >>
        q1 == << Sub(rt(2, 0), rt(0, 2)), Add(rt(0, 1), rt(1, 0)),
                 t[2], Add(rt(1, 2), rt(2, 1)) >>
        q2 == << Sub(rt(0, 1), rt(1, 0)), Add(rt(2, 0), rt(0, 2)),
                 Add(rt(1, 2), rt(2, 1)), t[3] >>
        q3 == << t[4], Sub(rt(1, 2), rt(2, 1)),
                 Sub(rt(2, 0), rt(0, 2)), Sub(rt(0, 1), rt(1, 0)) >>
        q == VAdd(VAdd(VAdd(Scale(q0, Mask(m[1])), Scale(q1, Mask(m[2]))),
                       Scale(q2, Mask(m[3]))), Scale(q3, Mask(m[4])))
        tsum == Add(Add(Add(Mul(t[1], Mask(m[1])), Mul(t[2], Mask(m[2]))),
                        Mul(t[3], Mask(m[3]))), Mul(t[4], Mask(m[4])))
    IN  Scale(VDiv(q, Sqrt(tsum)), Half)

\* One batch item: the candidates q0..q3, blended by the masks, divided by
\* the root of the selected term and halved.
rotation_matrix_to_quaternion_item(rotation_matrix, b, eps) ==
    LET rt(r, c) == At3(rotation_matrix, b, c, r)
        t == branch_terms(rotation_matrix, b)
        m == branch_masks(rotation_matrix, b, eps)
        q0 == << Sub(rt(1, 2), rt(2, 1)), t[1],
                 Add(rt(0, 1), rt(1, 0)), Add(rt(2, 0), rt(0, 2)) >>
        q1 == << Sub(rt(2, 0), rt(0, 2)), Add(rt(0, 1), rt(1, 0)),
                 t[2], Add(rt(1, 2), rt(2, 1)) >>
        q2 == << Sub(rt(0, 1), rt(1, 0)), Add(rt(2, 0), rt(0, 2)),
                 Add(rt(1, 2), rt(2, 1)), t[3] >>
        q3 == << t[4], Sub(rt(1, 2), rt(2, 1)),
                 Sub(rt(2, 0), rt(0, 2)), Sub(rt(0, 1), rt(1, 0)) >>
        mask_c0 == Mask(m[1])
        mask_c1 == Mask(m[2])
        mask_c2 == Mask(m[3])
        mask_c3 == Mask(m[4])
        q == VAdd(VAdd(VAdd(Scale(q0, mask_c0), Scale(q1, mask_c1)),
                       Scale(q2, mask_c2)), Scale(q3, mask_c3))
        tsum == Add(Add(Add(Mul(t[1], mask_c0), Mul(t[2], mask_c1)),
                        Mul(t[3], mask_c2)), Mul(t[4], mask_c3))
    IN  Scale(VDiv(q, Sqrt(tsum)), Half)

\* More than three dimensions are refused; transpose(1, 2) needs three, and
\* the indices 0..2 need three rows and three columns.  The check of the
\* last two dimensions against (3, 4) is commented out in the source.
rotation_matrix_to_quaternion(rotation_matrix, eps) ==
    IF Len(rotation_matrix.shape) > 3 THEN Raise("ValueError")
    ELSE IF Len(rotation_matrix.shape) < 3 THEN Raise("IndexError")
    ELSE IF rotation_matrix.shape[2] < 3 \/ rotation_matrix.shape[3] < 3
         THEN Raise("IndexError")
    ELSE LET N == rotation_matrix.shape[1]
             items == [b \in 1..N |->
                          rotation_matrix_to_quaternion_item(rotation_matrix, b - 1, eps)]
         IN  Tensor(<<N, 4>>, Flat(items, 4))

----------------------------------------------------------------------------
(* Angles.  atan2 of two rationals is not a rational: a value that holds   *)
(* an angle is a triple <<c, Y, X>> standing for c * atan2(Y, X), with c a *)
(* number and (Y, X) integers without a common factor, Y >= 0; the pair    *)
(* (0, 0) marks a plain number c.  Two such values are the same real when  *)
(* they are the same triple (the inputs drawn keep clear of the angles     *)
(* that are rational multiples of one another).                            *)

MkA(c, Y, X) ==
    IF (Y = 0 /\ X = 0) \/ ~IsFinite(c) THEN <<c, 0, 0>>
    ELSE IF IsZero(c) \/ (Y = 0 /\ X > 0) THEN <<Zero, 0, 0>>
    ELSE LET g == Gcd(Abs(Y), Abs(X))
         IN  IF Y < 0 THEN <<Neg(c), (-Y) \div g, Sgn(X) * (Abs(X) \div g)>>
             ELSE <<c, Y \div g, Sgn(X) * (Abs(X) \div g)>>

Plain(x) == <<x, 0, 0>>

\* torch.atan2(y, x).  Of two arguments of different order the smaller one
\* only decides on which side of the larger one's axis the angle lies.
Atan2(y, x) ==
    IF IsNaN(y) \/ IsNaN(x) THEN Plain(NaN)
    ELSE IF IsZero(y) /\ IsZero(x) THEN Plain(Zero)
    ELSE IF ~IsFinite(y) \/ ~IsFinite(x)
         THEN MkA(One, IF IsFinite(y) THEN 0 ELSE Sign(y), IF IsFinite(x) THEN 0 ELSE Sign(x))
    ELSE IF IsZero(y) \/ IsZero(x) THEN MkA(One, Sign(y), Sign(x))
    ELSE IF y[3] = x[3] THEN MkA(One, y[1] * x[2], x[1] * y[2])
    ELSE IF y[3] > x[3]
         THEN (IF Sign(x) > 0 THEN Plain(Div(y, x)) ELSE MkA(Num(Sign(y)), 0, -1))
    ELSE MkA(One, Sign(y), 0)

AScale(a, s) == MkA(Mul(a[1], s), a[2], a[3])

ADiv(a, s) == MkA(Div(a[1], s), a[2], a[3])

\* The sum of two values in the same angle (or of which one is zero).
AAdd(a, b) ==
    IF IsZero(a[1]) THEN b
    ELSE IF IsZero(b[1]) THEN a
    ELSE IF a[2] = b[2] /\ a[3] = b[3] THEN MkA(Add(a[1], b[1]), a[2], a[3])
    ELSE Plain(NaN)

RECURSIVE ASum(_)
ASum(v) == IF v = <<>> THEN Plain(Zero) ELSE AAdd(ASum(SubSeq(v, 1, Len(v) - 1)), v[Len(v)])

AIsFinite(a) == IsFinite(a[1])

----------------------------------------------------------------------------
(* quaternion_to_angle_axis, quaternion_to_angle                           *)

\* The one element of a singleton.  A value bound by { ... : x \in {e} }
\* is computed once, where a LET definition is computed at each use.
Only(S) == CHOOSE r \in S : TRUE

\* two_theta of both angle conversions.
two_theta_of(sin_theta, cos_theta) ==
    AScale(IF Less(cos_theta, Zero)
           THEN Atan2(Neg(sin_theta), Neg(cos_theta))
           ELSE Atan2(sin_theta, cos_theta), Two)

\* One quaternion (its last dimension); the three channels of angle_axis.
quaternion_to_angle_axis_item(quaternion) ==
    LET q1 == quaternion[2]
        q2 == quaternion[3]
        q3 == quaternion[4]
        cos_theta == quaternion[1]
        k_neg == Plain(Two)
    IN  Only({ Only({ Only({ Only({ << AScale(k, q1), AScale(k, q2), AScale(k, q3) >> :
            k \in {IF Greater(sin_squared_theta, Zero)
                   THEN ADiv(two_theta, sin_theta) ELSE k_neg} }) :
            two_theta \in {two_theta_of(sin_theta, cos_theta)} }) :
            sin_theta \in {Sqrt(sin_squared_theta)} }) :
            sin_squared_theta \in {Add(Add(Mul(q1, q1), Mul(q2, q2)), Mul(q3, q3))} })

\* The last dimension must be 4; the conversion runs over all the others.
quaternion_to_angle_axis(quaternion) ==
    LET rank == Len(quaternion.shape)
    IN  IF rank = 0 THEN Raise("IndexError")
        ELSE IF quaternion.shape[rank] # 4 THEN Raise("ValueError")
        ELSE LET items == [b \in 1..(Len(quaternion.data) \div 4) |->
                              quaternion_to_angle_axis_item(Rows(quaternion.data, 4)[b])]
             IN  Tensor(SubSeq(quaternion.shape, 1, rank - 1) \o <<3>>, Flat(items, 3))

quaternion_to_angle_item(quaternion) ==
    LET q1 == quaternion[2]
        q2 == quaternion[3]
        q3 == quaternion[4]
        cos_theta == quaternion[1]
    IN  Only({ two_theta_of(sin_theta, cos_theta) :
               sin_theta \in {Sqrt(Add(Add(Mul(q1, q1), Mul(q2, q2)), Mul(q3, q3)))} })

quaternion_to_angle(quaternion) ==
    LET rank == Len(quaternion.shape)
    IN  IF rank = 0 THEN Raise("IndexError")
        ELSE IF quaternion.shape[rank] # 4 THEN Raise("ValueError")
        ELSE LET items == [b \in 1..(Len(quaternion.data) \div 4) |->
                              <<quaternion_to_angle_item(Rows(quaternion.data, 4)[b])>>]
             IN  Tensor(SubSeq(quaternion.shape, 1, rank - 1) \o <<1>>, Flat(items, 1))

----------------------------------------------------------------------------
(* Inputs: rotations with rational entries                                 *)

\* Integer quaternions (w, x, y, z) are drawn with components in
\* -QMax..QMax, tensors with 1..MaxBatch batch items.
QMax == 2
MaxBatch == 2

IntQuats == {q \in [1..4 -> -QMax..QMax] : \E k \in 1..4 : q[k] # 0}

Norm2(q) == q[1] * q[1] + q[2] * q[2] + q[3] * q[3] + q[4] * q[4]

\* The quaternions whose norm is rational: the roots taken on them are exact.
SquareQuats == {q \in IntQuats : IsSquare(Norm2(q))}

\* The proper rotation matrix (orthonormal, det = +1) of the rotation an
\* integer quaternion stands for, row by row; its entries are rational.
RotOf(q) ==
    LET n == Norm2(q)
        w == q[1]
        x == q[2]
        y == q[3]
        z == q[4]
    IN  << Rat(w*w + x*x - y*y - z*z, n), Rat(2 * (x*y - w*z), n), Rat(2 * (x*z + w*y), n),
           Rat(2 * (x*y + w*z), n), Rat(w*w - x*x + y*y - z*z, n), Rat(2 * (y*z - w*x), n),
           Rat(2 * (x*z - w*y), n), Rat(2 * (y*z + w*x), n), Rat(w*w - x*x - y*y + z*z, n) >>

\* The k-th batch item made from q: its components rotated k places, so
\* that the items of one batch fall into different branches.
Shift(q, k) == [j \in 1..4 |-> q[((j - 1 + k) % 4) + 1]]

QuatBatch(q, B) ==
    Tensor(<<B, 4>>, Flat([b \in 1..B |-> [k \in 1..4 |-> Num(Shift(q, b - 1)[k])]], 4))

MatBatch(q, B) == Tensor(<<B, 3, 3>>, Flat([b \in 1..B |-> RotOf(Shift(q, b - 1))], 9))

NegT(t) == Tensor(t.shape, [k \in 1..Len(t.data) |-> Neg(t.data[k])])

\* |x - y| < tol; false when either is not finite.
Close(x, y, tol) ==
    /\ IsFinite(x) /\ IsFinite(y)
    /\ Less(Sub(x, y), tol) /\ Less(Sub(y, x), tol)

CloseT(s, t, tol) ==
    /\ ~IsErr(s) /\ ~IsErr(t)
    /\ s.shape = t.shape
    /\ \A k \in 1..Len(s.data) : Close(s.data[k], t.data[k], tol)

Tol4 == <<1, 10000, 0>>

None == [none |-> TRUE]

----------------------------------------------------------------------------
(* Round trip matrix -> quaternion -> matrix                               *)

InitRoundTrip ==
    /\ fn = "rotation_matrix_to_quaternion"
    /\ arg \in {MatBatch(q, B) : q \in SquareQuats, B \in 1..MaxBatch}
    /\ pc = "start"
    /\ tmp = None /\ ret = None /\ i = 0 /\ trans = <<>>

CallRotationMatrixToQuaternion ==
    /\ pc = "start" /\ fn = "rotation_matrix_to_quaternion"
    /\ tmp' = rotation_matrix_to_quaternion(arg, Eps6)
    /\ pc' = "quaternion"
    /\ UNCHANGED <<fn, arg, ret, i, trans>>

CallQuatToRotmatOnResult ==
    /\ pc = "quaternion" /\ ~IsErr(tmp)
    /\ ret' = quat_to_rotmat(tmp)
    /\ pc' = "done"
    /\ UNCHANGED <<fn, arg, tmp, i, trans>>

NextRoundTrip == CallRotationMatrixToQuaternion \/ CallQuatToRotmatOnResult

SpecRoundTrip == InitRoundTrip /\ [][NextRoundTrip]_vars

\* C1: for every proper rotation matrix R, whichever branch is selected,
\* quat_to_rotmat(rotation_matrix_to_quaternion(R)) reproduces R within 1e-4.
C1_RoundTrip ==
    (pc = "done" /\ fn = "rotation_matrix_to_quaternion") => CloseT(ret, arg, Tol4)

\* The branch selected for batch item b (0..3), from the masks.
BranchOf(rotation_matrix, b) ==
    LET m == branch_masks(rotation_matrix, b, Eps6)
    IN  CHOOSE k \in 0..3 : m[k + 1]

\* A round trip has ended on a batch whose two items took branches 2 and 1.
C1_Witness ==
    /\ pc = "done" /\ fn = "rotation_matrix_to_quaternion"
    /\ arg.shape[1] = 2
    /\ BranchOf(arg, 0) = 2 /\ BranchOf(arg, 1) = 1
    /\ CloseT(ret, arg, Tol4)

\* Round trips have ended in branch 0 and in branch 3 too.
C1_WitnessBranch0 == pc = "done" /\ fn = "rotation_matrix_to_quaternion" /\ BranchOf(arg, 0) = 0
C1_WitnessBranch3 == pc = "done" /\ fn = "rotation_matrix_to_quaternion" /\ BranchOf(arg, 0) = 3

----------------------------------------------------------------------------
(* Quaternion sign invariance                                              *)

InitSign ==
    /\ fn \in {"quat_to_rotmat", "quaternion_to_rotation_matrix"}
    /\ arg \in {QuatBatch(q, B) : q \in SquareQuats, B \in 1..MaxBatch}
    /\ pc = "start"
    /\ tmp = None /\ ret = None /\ i = 0 /\ trans = <<>>

CallQuatToRotmat ==
    /\ pc = "start" /\ fn = "quat_to_rotmat"
    /\ tmp' = quat_to_rotmat(arg)
    /\ pc' = "negated"
    /\ UNCHANGED <<fn, arg, ret, i, trans>>

CallQuatToRotmatNegated ==
    /\ pc = "negated" /\ fn = "quat_to_rotmat"
    /\ ret' = quat_to_rotmat(NegT(arg))
    /\ pc' = "done"
    /\ UNCHANGED <<fn, arg, tmp, i, trans>>

CallQuaternionToRotationMatrix ==
    /\ pc = "start" /\ fn = "quaternion_to_rotation_matrix"
    /\ tmp' = quaternion_to_rotation_matrix(arg)
    /\ pc' = "negated"
    /\ UNCHANGED <<fn, arg, ret, i, trans>>

CallQuaternionToRotationMatrixNegated ==
    /\ pc = "negated" /\ fn = "quaternion_to_rotation_matrix"
    /\ ret' = quaternion_to_rotation_matrix(NegT(arg))
    /\ pc' = "done"
    /\ UNCHANGED <<fn, arg, tmp, i, trans>>

NextSign ==
    \/ CallQuatToRotmat
    \/ CallQuatToRotmatNegated
    \/ CallQuaternionToRotationMatrix
    \/ CallQuaternionToRotationMatrixNegated

SpecSign == InitSign /\ [][NextSign]_vars

\* The matrix of a unit quaternion, straight from the definition: the
\* rotation matrix of the integer quaternion the batch item was made from.
IsRotationOf(mat, quat) ==
    /\ ~IsErr(mat)
    /\ mat.shape = <<quat.shape[1], 3, 3>>
    /\ \A b \in 1..quat.shape[1] :
          LET q == [k \in 1..4 |-> Rows(quat.data, 4)[b][k][1]]
          IN  Rows(mat.data, 9)[b] = RotOf(q)

\* C2: for every non-zero quaternion q, quat_to_rotmat(q) and
\* quat_to_rotmat(-q) are equal element by element, and so are
\* quaternion_to_rotation_matrix(q) and quaternion_to_rotation_matrix(-q);
\* both are the (finite) rotation matrix of q.
C2_SignInvariance ==
    (pc = "done" /\ fn \in {"quat_to_rotmat", "quaternion_to_rotation_matrix"})
        => (ret = tmp /\ IsRotationOf(ret, arg))

\* Both calls have returned on a batch of two quaternions with a negative
\* real part, for the second of the two functions.
C2_Witness ==
    /\ pc = "done" /\ fn = "quaternion_to_rotation_matrix"
    /\ arg.shape[1] = 2
    /\ Sign(At2(arg, 0, 0)) < 0 /\ ~IsZero(At2(arg, 0, 1))
    /\ ret = tmp /\ ~IsErr(ret)

----------------------------------------------------------------------------
(* rot6d_to_rotmat, rotmat_to_rot6d                                        *)

\* The eps of torch.nn.functional.normalize, 1e-12.
Eps12 == <<1, 1000, 1>>

\* F.normalize of one row: v / max(||v||, eps).
Normalize(v) == VDiv(v, Max(VNorm(v), Eps12))

\* Gram-Schmidt on the two vectors a1, a2; b1, b2, b3 are the columns.
gram_schmidt(a1, a2) ==
    LET b1 == Normalize(a1)
        b2 == Normalize(VSub(a2, Scale(b1, Dot(b1, a2))))
        b3 == Cross(b1, b2)
    IN  << b1[1], b2[1], b3[1],
           b1[2], b2[2], b3[2],
           b1[3], b2[3], b3[3] >>

\* The same item with the six values split as two consecutive triples
\* (a view of shape (2, 3) in place of (3, 2)).
rot6d_to_rotmat_item_triples(six) ==
    gram_schmidt(<<six[1], six[2], six[3]>>, <<six[4], six[5], six[6]>>)

\* One item of six values, seen as x[k, l] = six[2k + l]:
\* a1 = x[:, 0], a2 = x[:, 1].
rot6d_to_rotmat_item(six) ==
    gram_schmidt(<<six[1], six[3], six[5]>>, <<six[2], six[4], six[6]>>)

rot6d_to_rotmat(x) ==
    LET rank == Len(x.shape)
    IN  IF rank >= 1 /\ x.shape[rank] = 6
        THEN LET batch_size == x.shape[1]
                 num == IF rank = 3 THEN x.shape[2] ELSE 1
             IN  \* rearrange 'b (k l) -> b k l' takes two dimensions
                 IF rank # 3 /\ rank # 2 THEN Raise("EinopsError")
                 ELSE LET items == [b \in 1..(Len(x.data) \div 6) |->
                                       rot6d_to_rotmat_item(Rows(x.data, 6)[b])]
                          mat == Flat(items, 9)
                      IN  IF num > 1
                          THEN Tensor(<<batch_size, num, 3, 3>>, mat)
                          ELSE Tensor(<<Len(items), 3, 3>>, mat)
        ELSE \* x.view(-1, 3, 2)
             IF rank = 0 \/ Numel(x.shape) % 6 # 0 \/ Numel(x.shape) = 0
             THEN Raise("RuntimeError")
             ELSE LET items == [b \in 1..(Len(x.data) \div 6) |->
                                   rot6d_to_rotmat_item(Rows(x.data, 6)[b])]
                  IN  Tensor(<<Len(items), 3, 3>>, Flat(items, 9))

\* x[:, :, :2].reshape(batch_size, 6)
rotmat_to_rot6d(x) ==
    IF Len(x.shape) < 3 THEN Raise("IndexError")
    ELSE LET batch_size == x.shape[1]
             r == x.shape[2]
             c == x.shape[3]
             c2 == IF c < 2 THEN c ELSE 2
             rest == Numel(SubSeq(x.shape, 4, Len(x.shape)))
             per == r * c2 * rest
             item(b) == [j \in 1..per |->
                           LET m == (j - 1) % rest
                               col == ((j - 1) \div rest) % c2
                               row == (j - 1) \div (rest * c2)
                           IN  x.data[((b * r + row) * c + col) * rest + m + 1]]
         IN  IF per # 6 THEN Raise("RuntimeError")
             ELSE Tensor(<<batch_size, 6>>, Flat([b \in 1..batch_size |-> item(b - 1)], 6))

----------------------------------------------------------------------------
(* 6D round trip                                                           *)

InitRot6d ==
    /\ fn = "rotmat_to_rot6d"
    /\ arg \in {MatBatch(q, B) : q \in IntQuats, B \in 1..MaxBatch}
    /\ pc = "start"
    /\ tmp = None /\ ret = None /\ i = 0 /\ trans = <<>>

CallRotmatToRot6d ==
    /\ pc = "start" /\ fn = "rotmat_to_rot6d"
    /\ tmp' = rotmat_to_rot6d(arg)
    /\ pc' = "rot6d"
    /\ UNCHANGED <<fn, arg, ret, i, trans>>

CallRot6dToRotmatOnResult ==
    /\ pc = "rot6d" /\ ~IsErr(tmp)
    /\ ret' = rot6d_to_rotmat(tmp)
    /\ pc' = "done"
    /\ UNCHANGED <<fn, arg, tmp, i, trans>>

NextRot6d == CallRotmatToRot6d \/ CallRot6dToRotmatOnResult

SpecRot6d == InitRot6d /\ [][NextRot6d]_vars

\* C8: for every orthonormal matrix R with det = +1,
\* rot6d_to_rotmat(rotmat_to_rot6d(R)) equals R: the order in which
\* rotmat_to_rot6d flattens the first two columns is the order
\* rot6d_to_rotmat splits back into a1 and a2.
C8_Rot6dRoundTrip ==
    (pc = "done" /\ fn = "rotmat_to_rot6d") => ret = arg

\* A round trip has ended on a batch of two rotations that are not
\* symmetric matrices (so the column order matters).
C8_Witness ==
    /\ pc = "done" /\ fn = "rotmat_to_rot6d"
    /\ arg.shape[1] = 2
    /\ At3(arg, 0, 0, 1) # At3(arg, 0, 1, 0)
    /\ At3(arg, 1, 0, 2) # At3(arg, 1, 2, 0)
    /\ tmp.shape = <<2, 6>>
    /\ ret = arg

----------------------------------------------------------------------------
(* Inputs of every shape                                                   *)

\* Shapes of one to three dimensions with 1..MaxDim entries in each, and
\* three shapes of four dimensions.
MaxDim == 6

Shapes ==
    UNION {[1..r -> 1..MaxDim] : r \in 1..3}
        \cup {<<1, 1, 3, 3>>, <<1, 1, 1, 4>>, <<1, 1, 1, 6>>}

\* A tensor of the given shape, filled with small integers.
Filled(shape) == Tensor(shape, [j \in 1..Numel(shape) |-> Num(((j * j + 2 * j) % 5) - 2)])

ConversionNames ==
    { "quat_to_rotmat", "quaternion_to_rotation_matrix", "quaternion_to_angle_axis",
      "quaternion_to_angle", "rot6d_to_rotmat", "rotation_matrix_to_quaternion" }

InitShape ==
    /\ fn \in ConversionNames
    /\ arg \in {Filled(shape) : shape \in Shapes}
    /\ pc = "start"
    /\ tmp = None /\ ret = None /\ i = 0 /\ trans = <<>>

\* One conversion called on a tensor of some shape; the call returns a
\* tensor or raises.
ShapeQuatToRotmat ==
    /\ pc = "start" /\ fn = "quat_to_rotmat"
    /\ ret' = quat_to_rotmat(arg)
    /\ pc' = "done"
    /\ UNCHANGED <<fn, arg, tmp, i, trans>>

ShapeQuaternionToRotationMatrix ==
    /\ pc = "start" /\ fn = "quaternion_to_rotation_matrix"
    /\ ret' = quaternion_to_rotation_matrix(arg)
    /\ pc' = "done"
    /\ UNCHANGED <<fn, arg, tmp, i, trans>>

ShapeQuaternionToAngleAxis ==
    /\ pc = "start" /\ fn = "quaternion_to_angle_axis"
    /\ ret' = quaternion_to_angle_axis(arg)
    /\ pc' = "done"
    /\ UNCHANGED <<fn, arg, tmp, i, trans>>

ShapeQuaternionToAngle ==
    /\ pc = "start" /\ fn = "quaternion_to_angle"
    /\ ret' = quaternion_to_angle(arg)
    /\ pc' = "done"
    /\ UNCHANGED <<fn, arg, tmp, i, trans>>

ShapeRot6dToRotmat ==
    /\ pc = "start" /\ fn = "rot6d_to_rotmat"
    /\ ret' = rot6d_to_rotmat(arg)
    /\ pc' = "done"
    /\ UNCHANGED <<fn, arg, tmp, i, trans>>

ShapeRotationMatrixToQuaternion ==
    /\ pc = "start" /\ fn = "rotation_matrix_to_quaternion"
    /\ ret' = rotation_matrix_to_quaternion(arg, Eps6)
    /\ pc' = "done"
    /\ UNCHANGED <<fn, arg, tmp, i, trans>>

NextShape ==
    \/ ShapeQuatToRotmat
    \/ ShapeQuaternionToRotationMatrix
    \/ ShapeQuaternionToAngleAxis
    \/ ShapeQuaternionToAngle
    \/ ShapeRot6dToRotmat
    \/ ShapeRotationMatrixToQuaternion

SpecShape == InitShape /\ [][NextShape]_vars

Last(shape) == shape[Len(shape)]

\* The shape does not match the representation the conversion expects.
ShapeMismatch(name, shape) ==
    CASE name \in {"quat_to_rotmat", "quaternion_to_rotation_matrix",
                   "quaternion_to_angle_axis", "quaternion_to_angle"} -> Last(shape) # 4
      [] name = "rot6d_to_rotmat" -> Last(shape) # 6
      [] name = "rotation_matrix_to_quaternion" ->
            ~(Len(shape) = 3 /\ shape[2] = 3 /\ shape[3] \in {3, 4})

\* C9: every conversion given a tensor whose rank or last dimension does
\* not match its representation fails with an error (a quaternion input
\* whose last dimension is not 4, a 6D input whose last dimension is not 6,
\* a matrix input that is not N x 3 x 3 or N x 3 x 4).
C9_InvalidShapeFails ==
    (pc = "done" /\ fn \in ConversionNames /\ ShapeMismatch(fn, arg.shape)) => IsErr(ret)

\* What holds of the code: the two conversions that check the last
\* dimension themselves refuse every mismatching input.
C9_CheckedConversionsFail ==
    (pc = "done" /\ fn \in {"quaternion_to_angle_axis", "quaternion_to_angle"}
       /\ ShapeMismatch(fn, arg.shape)) => (IsErr(ret) /\ ret.err = "ValueError")

\* rot6d_to_rotmat has returned matrices for an input of last dimension 2.
C9_SilentReshape ==
    /\ pc = "done" /\ fn = "rot6d_to_rotmat"
    /\ arg.shape = <<2, 3, 2>>
    /\ ~IsErr(ret) /\ ret.shape = <<2, 3, 3>>

----------------------------------------------------------------------------
(* perspective_projection                                                  *)

\* torch.einsum('bij,bkj->bki', M, P) for one batch item and one point:
\* the 3x3 matrix M (nine values, row by row) applied to the point p.
MatVec(M, p) ==
    [r \in 1..3 |-> Add(Add(Mul(M[3 * r - 2], p[1]), Mul(M[3 * r - 1], p[2])), Mul(M[3 * r], p[3]))]

\* The intrinsics built when cam_intrinsics is None, for batch item b
\* (from 0); focal_length is a scalar or holds one value per item.
BuiltK(focal_length, camera_center, b) ==
    LET f == IF focal_length.shape = <<>> THEN focal_length.data[1] ELSE focal_length.data[b + 1]
    IN  << f, Zero, At2(camera_center, b, 0),
           Zero, f, At2(camera_center, b, 1),
           Zero, Zero, One >>

\* The projection of a point with the camera center left out of the
\* intrinsics.
project_point_uncentered(K, R, t, p) ==
    LET rotated == MatVec(R, p)
        points == VAdd(rotated, t)
        projected_points == VDiv(points, points[3])
    IN  MatVec(<<K[1], K[2], Zero, K[4], K[5], Zero, K[7], K[8], K[9]>>, projected_points)

\* One point of one batch item: rotate, translate, divide by the depth,
\* apply the intrinsics.  All three channels are returned.
project_point(K, R, t, p) ==
    LET rotated == MatVec(R, p)
        points == VAdd(rotated, t)
        projected_points == VDiv(points, points[3])
    IN  MatVec(K, projected_points)

perspective_projection(points, rotation, translation, focal_length, camera_center, cam_intrinsics, retain_z) ==
    LET batch_size == points.shape[1]
        N == points.shape[2]
        K(b) == IF cam_intrinsics # None
                THEN Rows(cam_intrinsics.data, 9)[b + 1]
                ELSE BuiltK(focal_length, camera_center, b)
        item(b, k) == project_point(K(b), Rows(rotation.data, 9)[b + 1],
                                    Rows(translation.data, 3)[b + 1],
                                    Rows(points.data, 3)[b * N + k + 1])
        all == [j \in 1..(batch_size * N) |-> item((j - 1) \div N, (j - 1) % N)]
    IN  IF retain_z
        THEN Tensor(<<batch_size, N, 3>>, Flat(all, 3))
        ELSE Tensor(<<batch_size, N, 2>>, Flat([j \in 1..Len(all) |-> SubSeq(all[j], 1, 2)], 2))

----------------------------------------------------------------------------
(* Projection inputs                                                       *)

Scalar(x) == Tensor(<<>>, <<x>>)

\* bs copies of one row.
Repeat(row, bs) == Flat([b \in 1..bs |-> row], Len(row))

Identity3 == <<One, Zero, Zero, Zero, One, Zero, Zero, Zero, One>>

\* Point sets: on the optical axis at one or two depths, and off it.
PointSets ==
    { << <<Zero, Zero, One>> >>,
      << <<Zero, Zero, Num(2)>> >>,
      << <<Zero, Zero, Rat(1, 2)>>, <<Zero, Zero, Num(5)>> >>,
      << <<One, Num(-2), Num(3)>> >>,
      << <<Num(2), One, Num(4)>>, <<Num(-1), Zero, Num(2)>> >>,
      << <<One, One, Zero>> >> }

Rotations == {Identity3, RotOf(<<1, 1, 0, 0>>), RotOf(<<1, 2, 2, 4>>)}

Translations == { <<Zero, Zero, Zero>>, <<One, Num(-1), Num(2)>>, <<Zero, Zero, Num(-2)>> }

FocalLengths == {One, Num(5000), Rat(3, 2)}

Centers == { <<Zero, Zero>>, <<Num(112), Num(112)>>, <<Num(-3), Rat(1, 2)>> }

\* Intrinsics handed in by the caller: of the pinhole form, or with a
\* skew and a third row of its own.
Intrinsics ==
    { <<Num(2), Zero, Num(7), Zero, Num(2), Num(-5), Zero, Zero, One>>,
      <<Num(3), One, Num(4), Zero, Num(5), Num(6), Zero, Zero, Num(2)>> }

\* Batch item b (from 1) holds the point set scaled by b.
PointBatch(ps, bs) ==
    Tensor(<<bs, Len(ps), 3>>,
           Flat([j \in 1..(bs * Len(ps)) |->
                    Scale(ps[((j - 1) % Len(ps)) + 1], Num(((j - 1) \div Len(ps)) + 1))], 3))

ProjectionArgs ==
    { [ points |-> PointBatch(ps, bs),
        rotation |-> Tensor(<<bs, 3, 3>>, Repeat(R, bs)),
        translation |-> Tensor(<<bs, 3>>, Repeat(t, bs)),
        focal_length |-> Scalar(f),
        camera_center |-> Tensor(<<bs, 2>>, Repeat(c, bs)),
        cam_intrinsics |-> None,
        retain_z |-> z ] :
        ps \in PointSets, bs \in 1..MaxBatch, R \in Rotations, t \in Translations,
        f \in FocalLengths, c \in Centers, z \in BOOLEAN }
    \cup
    { [ points |-> PointBatch(ps, bs),
        rotation |-> Tensor(<<bs, 3, 3>>, Repeat(R, bs)),
        translation |-> Tensor(<<bs, 3>>, Repeat(t, bs)),
        focal_length |-> None,
        camera_center |-> None,
        cam_intrinsics |-> Tensor(<<bs, 3, 3>>, Repeat(K, bs)),
        retain_z |-> z ] :
        ps \in PointSets, bs \in 1..MaxBatch, R \in Rotations, t \in Translations,
        K \in Intrinsics, z \in BOOLEAN }

InitProjection ==
    /\ fn = "perspective_projection"
    /\ arg \in ProjectionArgs
    /\ pc = "start"
    /\ tmp = None /\ ret = None /\ i = 0 /\ trans = <<>>

CallPerspectiveProjection ==
    /\ pc = "start" /\ fn = "perspective_projection"
    /\ ret' = perspective_projection(arg.points, arg.rotation, arg.translation,
                                     arg.focal_length, arg.camera_center,
                                     arg.cam_intrinsics, arg.retain_z)
    /\ pc' = "done"
    /\ UNCHANGED <<fn, arg, tmp, i, trans>>

NextProjection == CallPerspectiveProjection

SpecProjection == InitProjection /\ [][NextProjection]_vars

\* Every point of the input lies on the optical axis at a positive depth,
\* the rotation is the identity, the translation zero and the intrinsics
\* are built from a focal length and a camera center.
OnAxisInput(a) ==
    /\ a.cam_intrinsics = None
    /\ \A b \in 1..a.points.shape[1] :
          /\ Rows(a.rotation.data, 9)[b] = Identity3
          /\ Rows(a.translation.data, 3)[b] = <<Zero, Zero, Zero>>
    /\ \A j \in 1..(Len(a.points.data) \div 3) :
          LET p == Rows(a.points.data, 3)[j]
          IN  IsZero(p[1]) /\ IsZero(p[2]) /\ Greater(p[3], Zero)

\* C3: a point (0, 0, d), d > 0, under the identity rotation, zero
\* translation and intrinsics built from f and (cx, cy) projects to
\* (cx, cy) exactly, for every f, d and (cx, cy).
C3_ProjectionSanity ==
    (pc = "done" /\ fn = "perspective_projection" /\ OnAxisInput(arg))
        => /\ ~IsErr(ret)
           /\ \A b \in 0..(ret.shape[1] - 1) : \A k \in 0..(ret.shape[2] - 1) :
                 /\ At3(ret, b, k, 0) = At2(arg.camera_center, b, 0)
                 /\ At3(ret, b, k, 1) = At2(arg.camera_center, b, 1)

\* Two points at depths 1/2 and 5 have been projected with f = 5000 onto
\* the center (112, 112).
C3_Witness ==
    /\ pc = "done" /\ fn = "perspective_projection" /\ OnAxisInput(arg)
    /\ arg.points.shape = <<1, 2, 3>>
    /\ arg.focal_length = Scalar(Num(5000))
    /\ ~arg.retain_z
    /\ ret = Tensor(<<1, 2, 2>>, <<Num(112), Num(112), Num(112), Num(112)>>)

\* The depth of point k of batch item b after rotation and translation.
DepthOf(a, b, k) ==
    LET N == a.points.shape[2]
        p == Rows(a.points.data, 3)[b * N + k + 1]
    IN  VAdd(MatVec(Rows(a.rotation.data, 9)[b + 1], p), Rows(a.translation.data, 3)[b + 1])[3]

\* C10: with retain_z set the result has three channels per point and the
\* third is the un-divided Z of the rotated and translated point; with
\* retain_z unset it has the two image coordinates only.
C10_RetainedDepth ==
    (pc = "done" /\ fn = "perspective_projection")
        => /\ ~IsErr(ret)
           /\ ret.shape = <<arg.points.shape[1], arg.points.shape[2],
                            IF arg.retain_z THEN 3 ELSE 2>>
           /\ arg.retain_z =>
                 \A b \in 0..(ret.shape[1] - 1) : \A k \in 0..(ret.shape[2] - 1) :
                    At3(ret, b, k, 2) = DepthOf(arg, b, k)

\* What the code returns: the channel count follows retain_z, and under
\* built intrinsics the third channel is the divided coordinate Z/Z = 1
\* whenever the depth is not zero.
C10_ThirdChannelIsOne ==
    (pc = "done" /\ fn = "perspective_projection")
        => /\ ~IsErr(ret)
           /\ ret.shape = <<arg.points.shape[1], arg.points.shape[2],
                            IF arg.retain_z THEN 3 ELSE 2>>
           /\ (arg.retain_z /\ arg.cam_intrinsics = None) =>
                 \A b \in 0..(ret.shape[1] - 1) : \A k \in 0..(ret.shape[2] - 1) :
                    ~IsZero(DepthOf(arg, b, k)) => At3(ret, b, k, 2) = One

----------------------------------------------------------------------------
(* estimate_translation_np                                                 *)

AbsN(x) == IF Sign(x) < 0 THEN Neg(x) ELSE x

\* The sum of v[lo..hi], taken by halves.
RECURSIVE PairSum(_, _, _)
PairSum(v, lo, hi) ==
    IF lo > hi THEN Zero
    ELSE IF lo = hi THEN v[lo]
    ELSE LET mid == (lo + hi) \div 2
         IN  Add(PairSum(v, lo, mid), PairSum(v, mid + 1, hi))

\* np.dot(W, Q) for W = np.diagflat(w): row r of Q times w[r], the other
\* terms of each sum being 0 * Q[k, j]; they are 0 unless Q or w holds a
\* non-finite entry, which then spreads over the column.
DiagDot(w, Q) ==
    LET finite == \A r \in 1..Len(Q) :
                     IsFinite(w[r]) /\ \A j \in 1..Len(Q[r]) : IsFinite(Q[r][j])
    IN  IF finite
        THEN [r \in 1..Len(Q) |-> [j \in 1..Len(Q[r]) |-> Mul(w[r], Q[r][j])]]
        ELSE [r \in 1..Len(Q) |-> [j \in 1..Len(Q[r]) |->
                 PairSum([k \in 1..Len(Q) |-> Mul(IF k = r THEN w[r] ELSE Zero, Q[k][j])], 1, Len(Q))]]

\* np.dot(Q.T, Q) and np.dot(Q.T, c).
Gram(Q) ==
    [a \in 1..3 |-> [b \in 1..3 |-> PairSum([r \in 1..Len(Q) |-> Mul(Q[r][a], Q[r][b])], 1, Len(Q))]]

GramVec(Q, c) == [a \in 1..3 |-> PairSum([r \in 1..Len(Q) |-> Mul(Q[r][a], c[r])], 1, Len(Q))]

RECURSIVE IsPow2(_)
IsPow2(d) == d = 1 \/ (d > 1 /\ d % 2 = 0 /\ IsPow2(d \div 2))

\* A value a binary float holds exactly: a fraction over a power of two.
Dyadic(x) == IsFinite(x) /\ x[3] = 0 /\ IsPow2(x[2])

\* What a rounded elimination leaves in place of an exact zero: a value in
\* the last digits of the operands.
Residue == <<1, 1, 2>>

\* x - m * y as the elimination computes it.  The result is exact in the
\* model.  Where it is exactly zero and an operand is rounded (tainted: the
\* multiplier m is no binary fraction, or x comes from such a step), the
\* float64 result is zero or a residue, depending on the values and on the
\* LAPACK build; `rounded` selects the second outcome.
ElimEntry(x, m, y, tainted, rounded) ==
    LET exact == Sub(x, Mul(m, y))
    IN  IF rounded /\ tainted /\ IsZero(exact) /\ ~IsZero(x) /\ IsFinite(x)
        THEN Residue
        ELSE exact

\* The row of the largest entry of column col on or below the diagonal,
\* the first of them on a tie (LAPACK idamax).
Pivot(M, col) ==
    CHOOSE r \in col..3 :
        /\ \A s \in col..3 : ~Less(AbsN(M[r][col]), AbsN(M[s][col]))
        /\ \A s \in col..(r - 1) : Less(AbsN(M[s][col]), AbsN(M[r][col]))

Swap(M, a, c) == [r \in 1..3 |-> IF r = a THEN M[c] ELSE IF r = c THEN M[a] ELSE M[r]]

\* Elimination of column 1 below the pivot row; the second component tells
\* for rows 2 and 3 whether entry 3 of the row carries a rounding.
EliminateFirst(M1s, rounded) ==
    LET m1(r) == Div(M1s[r][1], M1s[1][1])
        taint1(r, j) == ~Dyadic(m1(r)) /\ ~IsZero(M1s[1][j])
    IN  << [r \in 1..3 |->
               IF r = 1 THEN M1s[r]
               ELSE [j \in 1..4 |->
                        IF j = 1 THEN Zero
                        ELSE IF j = 4 THEN Sub(M1s[r][4], Mul(m1(r), M1s[1][4]))
                        ELSE ElimEntry(M1s[r][j], m1(r), M1s[1][j], taint1(r, j), rounded)]],
           [r \in 1..3 |-> r > 1 /\ taint1(r, 3)] >>

\* Elimination of column 2 and back substitution.
EliminateSecond(M2s, tainted, rounded) ==
    LET m2 == Div(M2s[3][2], M2s[2][2])
        u33 == ElimEntry(M2s[3][3], m2, M2s[2][3], ~Dyadic(m2) \/ tainted, rounded)
        c3 == Sub(M2s[3][4], Mul(m2, M2s[2][4]))
    IN  IF IsZero(M2s[2][2]) \/ IsZero(u33) THEN Raise("LinAlgError")
        ELSE Only({ Only({ Only({ Tensor(<<3>>, <<x1, x2, x3>>) :
                 x1 \in {Div(Sub(Sub(M2s[1][4], Mul(M2s[1][2], x2)), Mul(M2s[1][3], x3)),
                             M2s[1][1])} }) :
                 x2 \in {Div(Sub(M2s[2][4], Mul(M2s[2][3], x3)), M2s[2][2])} }) :
                 x3 \in {Div(c3, u33)} })

\* The solve from the system with its first pivot row in place.
SolveFrom(M1s, rounded) ==
    IF IsZero(M1s[1][1]) THEN Raise("LinAlgError")
    ELSE Only({ Only({ EliminateSecond(M2s, E1[2][2] \/ E1[2][3], rounded) :
                       M2s \in {Swap(E1[1], 2, Pivot(E1[1], 2))} }) :
                E1 \in {EliminateFirst(M1s, rounded)} })

\* np.linalg.solve(A, b) for a 3x3 system (LAPACK gesv): LU elimination with
\* partial pivoting, then back substitution; LinAlgError ("Singular matrix")
\* is raised when a pivot U(i,i) is exactly zero.  The right-hand side is
\* eliminated exactly.  Non-finite entries come out as NaN.
linalg_solve(A, b, rounded) ==
    IF \E r \in 1..3 : ~IsFinite(b[r]) \/ \E j \in 1..3 : ~IsFinite(A[r][j])
    THEN Tensor(<<3>>, <<NaN, NaN, NaN>>)
    ELSE Only({ Only({ SolveFrom(M1s, rounded) : M1s \in {Swap(M0, 1, Pivot(M0, 1))} }) :
                M0 \in {[r \in 1..3 |-> A[r] \o <<b[r]>>]} })

\* The center with the two halves in the order of img_size.
optical_center_unswapped(img_size) == <<Div(img_size[1], Two), Div(img_size[2], Two)>>

\* The optical center: half the width, half the height of img_size = (h, w).
optical_center(img_size) == <<Div(img_size[2], Two), Div(img_size[1], Two)>>

\* The weighted and squared system <<A, b>> of estimate_translation_np.
\* S: the joints (rows of 3), joints_2d: rows of 2, joints_conf: one value
\* per joint, img_size: a pair.
normal_equations(S, joints_2d, joints_conf, focal_length, img_size) ==
    LET num_joints == Len(S)
        f == <<focal_length, focal_length>>
        center == optical_center(img_size)
        \* entry r (from 1) of a flattened array of per-joint pairs
        joint(r) == ((r - 1) \div 2) + 1
        axis(r) == ((r - 1) % 2) + 1
        Z(r) == S[joint(r)][3]
        XY(r) == S[joint(r)][axis(r)]
        O(r) == center[axis(r)]
        F(r) == f[axis(r)]
        j2d(r) == joints_2d[joint(r)][axis(r)]
    IN  Only({ Only({ << Gram(WQ), GramVec(WQ, [r \in 1..(2 * num_joints) |-> Wc[r][1]]) >> :
                      WQ \in {DiagDot(weight2, Q)},
                      Wc \in {DiagDot(weight2, [r \in 1..(2 * num_joints) |-> <<c[r]>>])} }) :
               weight2 \in {[r \in 1..(2 * num_joints) |-> Sqrt(joints_conf[joint(r)])]},
               Q \in {[r \in 1..(2 * num_joints) |->
                         << Mul(F(r), IF axis(r) = 1 THEN One ELSE Zero),
                            Mul(F(r), IF axis(r) = 2 THEN One ELSE Zero),
                            Sub(O(r), j2d(r)) >>]},
               c \in {[r \in 1..(2 * num_joints) |->
                         Sub(Mul(Sub(j2d(r), O(r)), Z(r)), Mul(F(r), XY(r)))]} })

\* `rounded` is the outcome of the float64 rounding inside the solve.
estimate_translation_np(S, joints_2d, joints_conf, focal_length, img_size, rounded) ==
    Only({ linalg_solve(Ab[1], Ab[2], rounded) :
           Ab \in {normal_equations(S, joints_2d, joints_conf, focal_length, img_size)} })

----------------------------------------------------------------------------
(* estimate_translation                                                    *)

\* A numbers.Number argument, as against a list with one entry per item.
Number(x) == [is_number |-> TRUE, value |-> x]

List(l) == [is_number |-> FALSE, value |-> l]

IsNumber(x) == x.is_number

\* The index of the first ground-truth joint (S[:, 25:, :]).
GtStart == 25

\* The same locals with every joint kept, whatever use_all_kps says.
estimate_translation_locals_all_joints(S, joints_2d, focal_length, img_size, use_all_kps) ==
    LET B == S.shape[1]
        J == S.shape[2]
        first == 0
        kept == IF J > first THEN J - first ELSE 0
    IN  [ focal_length |-> IF IsNumber(focal_length)
                           THEN [b \in 1..B |-> focal_length.value]
                           ELSE focal_length.value,
          img_size |-> IF IsNumber(img_size)
                       THEN [b \in 1..B |-> <<img_size.value, img_size.value>>]
                       ELSE img_size.value,
          S |-> [b \in 1..B |-> [k \in 1..kept |->
                    <<At3(S, b - 1, first + k - 1, 0), At3(S, b - 1, first + k - 1, 1),
                      At3(S, b - 1, first + k - 1, 2)>>]],
          joints_2d |-> [b \in 1..B |-> [k \in 1..kept |->
                    <<At3(joints_2d, b - 1, first + k - 1, 0),
                      At3(joints_2d, b - 1, first + k - 1, 1)>>]],
          joints_conf |-> [b \in 1..B |-> [k \in 1..kept |->
                    At3(joints_2d, b - 1, first + k - 1, 2)]] ]

\* The locals of estimate_translation before its loop: the per-item focal
\* lengths and image sizes, and per item the joints that enter the solve,
\* split into positions and confidences.
estimate_translation_locals(S, joints_2d, focal_length, img_size, use_all_kps) ==
    LET B == S.shape[1]
        J == S.shape[2]
        first == IF use_all_kps THEN 0 ELSE GtStart
        kept == IF J > first THEN J - first ELSE 0
    IN  [ focal_length |-> IF IsNumber(focal_length)
                           THEN [b \in 1..B |-> focal_length.value]
                           ELSE focal_length.value,
          img_size |-> IF IsNumber(img_size)
                       THEN [b \in 1..B |-> <<img_size.value, img_size.value>>]
                       ELSE img_size.value,
          S |-> [b \in 1..B |-> [k \in 1..kept |->
                    <<At3(S, b - 1, first + k - 1, 0), At3(S, b - 1, first + k - 1, 1),
                      At3(S, b - 1, first + k - 1, 2)>>]],
          joints_2d |-> [b \in 1..B |-> [k \in 1..kept |->
                    <<At3(joints_2d, b - 1, first + k - 1, 0),
                      At3(joints_2d, b - 1, first + k - 1, 1)>>]],
          joints_conf |-> [b \in 1..B |-> [k \in 1..kept |->
                    At3(joints_2d, b - 1, first + k - 1, 2)]] ]

----------------------------------------------------------------------------
(* Translation inputs                                                      *)

MaxJoints == 6

JointPool ==
    << <<Zero, Zero, One>>, <<One, Zero, One>>, <<Zero, One, Num(2)>>,
       <<Num(-1), One, Num(2)>>, <<One, Num(-1), Num(4)>>, <<Num(2), One, One>>,
       <<Num(-1), Num(-2), Num(4)>>, <<One, Num(2), Num(2)>>, <<Num(-2), Zero, One>> >>

\* n joints: a window of the pool, or n points of one ray from the origin.
JointSets(n) ==
    {SubSeq(JointPool, k + 1, k + n) : k \in 0..2}
        \cup {[k \in 1..n |-> <<Num(k), Num(2 * k), Num(2 * k)>>]}

TStarSeq == << <<Zero, Zero, Zero>>, <<One, Num(-1), One>>, <<Num(-2), Rat(1, 2), Zero>> >>

TStars == {TStarSeq[k] : k \in 1..Len(TStarSeq)}

FocalNumbers == {Num(2), Num(3)}

ImgSizes == { <<Num(224), Num(224)>>, <<Num(4), Num(6)>> }

\* Confidences: all one, all zero, or mixed.
Confidences(n) ==
    { [k \in 1..n |-> One], [k \in 1..n |-> Zero],
      [k \in 1..n |-> IF k % 3 = 0 THEN Zero ELSE IF k % 3 = 1 THEN Num(4) ELSE One] }

\* The noiseless pinhole projection of the joints S moved by t.
Project(S, t, f, img_size) ==
    LET center == <<Div(img_size[2], Two), Div(img_size[1], Two)>>
    IN  [k \in 1..Len(S) |->
            LET p == VAdd(S[k], t)
            IN  << Add(Div(Mul(f, p[1]), p[3]), center[1]),
                   Add(Div(Mul(f, p[2]), p[3]), center[2]) >>]

\* The arguments of estimate_translation_np, with the translation the 2D
\* joints were made of (t_star, known to the caller only) and the outcome
\* of the rounding inside the solve (rounded).
TranslationNpArgsOf(n) ==
    { [ S |-> Tensor(<<n, 3>>, Flat(S, 3)),
        joints_2d |-> Tensor(<<n, 2>>, Flat(Project(S, t, f, sz), 2)),
        joints_conf |-> Tensor(<<n>>, conf),
        focal_length |-> f,
        img_size |-> sz,
        t_star |-> t,
        rounded |-> r ] :
        S \in JointSets(n), conf \in Confidences(n),
        t \in TStars, f \in FocalNumbers, sz \in ImgSizes, r \in BOOLEAN }

TranslationNpArgs == UNION {TranslationNpArgsOf(n) : n \in 1..MaxJoints}

\* The 25 leading joints of a batch item, positions and (x, y, confidence):
\* blank, or busy with confident joints of their own around the center of
\* the image.
Fillers == {"blank", "busy"}

Filler(kind, sz) ==
    [k \in 1..GtStart |->
        IF kind = "blank"
        THEN <<Zero, Zero, Zero, Zero, Zero, Zero>>
        ELSE <<Num(k % 3), One, Num(1 + (k % 2)),
               Add(Div(sz[2], Two), Num((k % 3) - 1)), Add(Div(sz[1], Two), Num(k % 2)), One>>]

\* The ground-truth joints of batch item b: projected without noise and
\* confident ("good"), the same with confidence 0 ("blind"), or on one ray
\* through the camera ("ray").
ItemKinds == {"good", "blind", "ray"}

ItemS(n, kind, b) ==
    IF kind = "ray" THEN [k \in 1..n |-> <<Num(k), Num(2 * k), Num(2 * k)>>]
    ELSE SubSeq(JointPool, b, b + n - 1)

ItemT(kind, b) == IF kind = "ray" THEN TStarSeq[1] ELSE TStarSeq[((b - 1) % Len(TStarSeq)) + 1]

ItemRows(n, kind, b, f, sz) ==
    LET S == ItemS(n, kind, b)
        uv == Project(S, ItemT(kind, b), f, sz)
    IN  [k \in 1..n |-> S[k] \o uv[k] \o <<IF kind = "blind" THEN Zero ELSE One>>]

\* The joint counts of the batched inputs.
JointCounts == {1, MaxJoints}

TranslationArgsOf(n, B) ==
    { LET f == [b \in 1..B |-> IF numbers THEN Num(2) ELSE Num(b)]
          sz == [b \in 1..B |-> IF numbers THEN <<Num(224), Num(224)>>
                                ELSE <<Num(4), Num(2 * b + 4)>>]
          rows == [b \in 1..B |-> Filler(fill, sz[b]) \o ItemRows(n, kinds[b], b, f[b], sz[b])]
          all == Flat(rows, GtStart + n)
      IN  [ S |-> Tensor(<<B, GtStart + n, 3>>,
                         Flat([j \in 1..Len(all) |-> SubSeq(all[j], 1, 3)], 3)),
            joints_2d |-> Tensor(<<B, GtStart + n, 3>>,
                                 Flat([j \in 1..Len(all) |-> SubSeq(all[j], 4, 6)], 3)),
            focal_length |-> IF numbers THEN Number(Num(2)) ELSE List(f),
            img_size |-> IF numbers THEN Number(Num(224)) ELSE List(sz),
            use_all_kps |-> all_kps,
            t_star |-> [b \in 1..B |-> ItemT(kinds[b], b)],
            rounded |-> r ] :
        kinds \in [1..B -> ItemKinds], fill \in Fillers, numbers \in BOOLEAN,
        all_kps \in BOOLEAN, r \in BOOLEAN }

TranslationArgs == UNION {TranslationArgsOf(n, B) : n \in JointCounts, B \in 1..MaxBatch}

----------------------------------------------------------------------------
(* The translation estimator                                               *)

InitTranslation ==
    /\ \/ fn = "estimate_translation_np" /\ arg \in TranslationNpArgs
       \/ fn = "estimate_translation" /\ arg \in TranslationArgs
    /\ pc = "start"
    /\ tmp = None /\ ret = None /\ i = 0 /\ trans = <<>>

CallEstimateTranslationNp ==
    /\ pc = "start" /\ fn = "estimate_translation_np"
    /\ \E r \in {estimate_translation_np(Rows(arg.S.data, 3), Rows(arg.joints_2d.data, 2),
                                           arg.joints_conf.data, arg.focal_length,
                                           arg.img_size, arg.rounded)} :
          /\ ret' = r
          /\ pc' = IF IsErr(r) THEN "raised" ELSE "done"
    /\ UNCHANGED <<fn, arg, tmp, i, trans>>

\* estimate_translation up to its loop.
EstimateTranslationEnter ==
    /\ pc = "start" /\ fn = "estimate_translation"
    /\ tmp' = estimate_translation_locals(arg.S, arg.joints_2d, arg.focal_length,
                                          arg.img_size, arg.use_all_kps)
    /\ trans' = [b \in 1..arg.S.shape[1] |-> <<Zero, Zero, Zero>>]
    /\ i' = 0
    /\ pc' = "loop"
    /\ UNCHANGED <<fn, arg, ret>>

\* One pass of the loop: the solve of item i fills row i of trans, or its
\* exception leaves the function.
EstimateTranslationItem ==
    /\ pc = "loop" /\ fn = "estimate_translation"
    /\ i < Len(tmp.S)
    /\ \E r \in {estimate_translation_np(tmp.S[i + 1], tmp.joints_2d[i + 1],
                                           tmp.joints_conf[i + 1], tmp.focal_length[i + 1],
                                           tmp.img_size[i + 1], arg.rounded)} :
           IF IsErr(r)
           THEN /\ ret' = r
                /\ pc' = "raised"
                /\ UNCHANGED <<i, trans>>
           ELSE /\ trans' = [trans EXCEPT ![i + 1] = r.data]
                /\ i' = i + 1
                /\ UNCHANGED <<pc, ret>>
    /\ UNCHANGED <<fn, arg, tmp>>

EstimateTranslationReturn ==
    /\ pc = "loop" /\ fn = "estimate_translation"
    /\ i = Len(tmp.S)
    /\ ret' = Tensor(<<Len(trans), 3>>, Flat(trans, 3))
    /\ pc' = "done"
    /\ UNCHANGED <<fn, arg, tmp, i, trans>>

NextTranslation ==
    \/ CallEstimateTranslationNp
    \/ EstimateTranslationEnter
    \/ EstimateTranslationItem
    \/ EstimateTranslationReturn

SpecTranslation == InitTranslation /\ [][NextTranslation]_vars

Tol3 == <<1, 1000, 0>>

\* Not all joints on one line.
NonCollinear(S) ==
    \E j \in 1..Len(S) : \E k \in 1..Len(S) :
        \E c \in 1..3 : ~IsZero(Cross(VSub(S[j], S[1]), VSub(S[k], S[1]))[c])

\* The input of the recovery claim: at least 6 non-collinear joints, every
\* one at positive depth under t_star, confidence 1 throughout, and the 2D
\* joints the noiseless projections of S + t_star.
RecoveryInput(a) ==
    LET S == Rows(a.S.data, 3)
    IN  /\ Len(S) >= 6
        /\ NonCollinear(S)
        /\ \A k \in 1..Len(S) : Greater(Add(S[k][3], a.t_star[3]), Zero)
        /\ \A k \in 1..Len(S) : a.joints_conf.data[k] = One
        /\ Rows(a.joints_2d.data, 2) = Project(S, a.t_star, a.focal_length, a.img_size)

\* C4: from at least 6 non-collinear joints at positive depth, their
\* noiseless projections under t_star and confidence 1 for every joint,
\* estimate_translation_np returns t_star within 1e-3.
C4_TranslationRecovery ==
    (fn = "estimate_translation_np" /\ pc \in {"done", "raised"} /\ RecoveryInput(arg))
        => CloseT(ret, Tensor(<<3>>, arg.t_star), Tol3)

\* Six joints of the pool, seen under f = 3 in a 4 x 6 image, have given
\* back the translation (-2, 1/2, 0) they were projected with.
C4_Witness ==
    /\ fn = "estimate_translation_np" /\ pc = "done" /\ RecoveryInput(arg)
    /\ arg.S.shape = <<6, 3>>
    /\ arg.focal_length = Num(3)
    /\ arg.img_size = <<Num(4), Num(6)>>
    /\ arg.t_star = <<Num(-2), Rat(1, 2), Zero>>
    /\ ret = Tensor(<<3>>, arg.t_star)

Det3(A) ==
    Add(Sub(Mul(A[1][1], Sub(Mul(A[2][2], A[3][3]), Mul(A[2][3], A[3][2]))),
            Mul(A[1][2], Sub(Mul(A[2][1], A[3][3]), Mul(A[2][3], A[3][1])))),
        Mul(A[1][3], Sub(Mul(A[2][1], A[3][2]), Mul(A[2][2], A[3][1]))))

\* The normal-equation matrix of the joints is singular.
SingularSystem(S, joints_2d, joints_conf, focal_length, img_size) ==
    IsZero(Det3(normal_equations(S, joints_2d, joints_conf, focal_length, img_size)[1]))

\* Some item of the call has a singular normal-equation matrix.
SingularCall ==
    \/ /\ fn = "estimate_translation_np"
       /\ SingularSystem(Rows(arg.S.data, 3), Rows(arg.joints_2d.data, 2),
                         arg.joints_conf.data, arg.focal_length, arg.img_size)
    \/ /\ fn = "estimate_translation"
       /\ \E b \in 1..Len(tmp.S) :
             SingularSystem(tmp.S[b], tmp.joints_2d[b], tmp.joints_conf[b],
                            tmp.focal_length[b], tmp.img_size[b])

\* C6: when the normal-equation matrix is singular estimate_translation_np
\* ends in a solve error and returns no translation, and in
\* estimate_translation a singular item makes the whole call fail.
C6_SingularFails ==
    (pc \in {"done", "raised"} /\ fn \in {"estimate_translation_np", "estimate_translation"}
        /\ SingularCall)
        => IsErr(ret)

\* What the code gives: a singular matrix ends in the solve error whenever
\* the elimination meets an exact zero, as it does with all confidences 0
\* and whenever no rounding leaves a residue; and no call that failed has
\* returned rows.
C6_ExactZeroPivotFails ==
    (pc \in {"done", "raised"} /\ fn \in {"estimate_translation_np", "estimate_translation"})
        => /\ (SingularCall /\ ~arg.rounded) => IsErr(ret)
           /\ (fn = "estimate_translation_np" /\ \A k \in 1..Len(arg.joints_conf.data) :
                   IsZero(arg.joints_conf.data[k])) => IsErr(ret)
           /\ pc = "raised" <=> IsErr(ret)

\* A single joint, a singular matrix, and a translation returned.
C6_SingleJointAbsorbed ==
    /\ fn = "estimate_translation_np" /\ pc = "done"
    /\ arg.S.shape = <<1, 3>>
    /\ SingularCall
    /\ ~IsErr(ret)

----------------------------------------------------------------------------
(* batch_rodrigues                                                         *)

\* The shift 1e-8 added to every component before the norm is taken.
Eps8 == <<10, 1, 1>>

\* torch.cos and torch.sin by the first three terms of their series: exact
\* to the precision kept for arguments of order Guard, within 2e-3 up to 1.
Cos(x) ==
    IF ~IsFinite(x) THEN NaN
    ELSE Sub(One, Mul(Pow2(x), Sub(Half, Mul(Pow2(x), Rat(1, 24)))))

Sin(x) ==
    IF ~IsFinite(x) THEN NaN
    ELSE Mul(x, Sub(One, Mul(Pow2(x), Sub(Rat(1, 6), Mul(Pow2(x), Rat(1, 120))))))

\* The same quaternion with the norm taken of theta itself.
batch_rodrigues_quat_unshifted(t) ==
    Only({ Only({ <<Cos(half)>> \o Scale(normalized, Sin(half)) :
                  half \in {Mul(angle, Half)}, normalized \in {VDiv(t, angle)} }) :
           angle \in {VNorm(t)} })

\* One batch item: the quaternion [v_cos, v_sin * normalized].
batch_rodrigues_quat(t) ==
    Only({ Only({ <<Cos(half)>> \o Scale(normalized, Sin(half)) :
                  half \in {Mul(angle, Half)}, normalized \in {VDiv(t, angle)} }) :
           angle \in {VNorm([k \in 1..Len(t) |-> Add(t[k], Eps8)])} })

\* theta: a tensor of two dimensions (the norm is taken along the second).
batch_rodrigues(theta) ==
    IF Len(theta.shape) < 2 THEN Raise("IndexError")
    ELSE LET B == theta.shape[1]
             D == theta.shape[2]
             items == [b \in 1..B |-> batch_rodrigues_quat(Rows(theta.data, D)[b])]
         IN  quat_to_rotmat(Tensor(<<B, D + 1>>, Flat(items, D + 1)))

\* Axis-angle vectors: zero, of the size of the shift (one of them its
\* exact opposite), and of ordinary size.
ZeroRow == <<Zero, Zero, Zero>>

ThetaRows ==
    { ZeroRow,
      <<Neg(Eps8), Neg(Eps8), Neg(Eps8)>>,
      <<Eps8, Zero, Zero>>,
      <<One, Zero, Zero>>,
      <<Zero, Zero, Neg(One)>>,
      <<Half, Zero, Zero>>,
      <<Zero, Neg(Half), Zero>>,
      <<Half, Half, Half>> }

InitRodrigues ==
    /\ fn = "batch_rodrigues"
    /\ arg \in {Tensor(<<Len(rows), 3>>, Flat(rows, 3)) :
                  rows \in UNION {[1..B -> ThetaRows] : B \in 1..MaxBatch}}
    /\ pc = "start"
    /\ tmp = None /\ ret = None /\ i = 0 /\ trans = <<>>

CallBatchRodrigues ==
    /\ pc = "start" /\ fn = "batch_rodrigues"
    /\ ret' = batch_rodrigues(arg)
    /\ pc' = "done"
    /\ UNCHANGED <<fn, arg, tmp, i, trans>>

NextRodrigues == CallBatchRodrigues

SpecRodrigues == InitRodrigues /\ [][NextRodrigues]_vars

\* C5: batch_rodrigues maps the zero axis-angle vector (0, 0, 0) to the
\* 3x3 identity matrix, and no entry of that result is NaN.
C5_ZeroIsIdentity ==
    (pc = "done" /\ fn = "batch_rodrigues") =>
        \A b \in 1..arg.shape[1] :
            Rows(arg.data, 3)[b] = ZeroRow =>
                /\ ~IsErr(ret)
                /\ Rows(ret.data, 9)[b] = Identity3
                /\ \A k \in 1..9 : ~IsNaN(Rows(ret.data, 9)[b][k])

\* A call has returned on a batch whose first item is the zero vector and
\* whose second is not.
C5_Witness ==
    /\ pc = "done" /\ fn = "batch_rodrigues"
    /\ arg.shape = <<2, 3>>
    /\ Rows(arg.data, 3)[1] = ZeroRow
    /\ Rows(arg.data, 3)[2] = <<Half, Zero, Zero>>
    /\ Rows(ret.data, 9)[1] = Identity3

----------------------------------------------------------------------------
(* compute_twist_rotation                                                  *)

\* The 1e-9 added to both norms before the division.
Eps9 == <<1, 1, 1>>

\* twist_axis / (norm(twist_axis) + 1e-9), one batch item.
normalized_twist_axis(a) == VDiv(a, Add(VNorm(a), Eps9))

\* The twist quaternion of one batch item: the scalar part of the
\* quaternion with its vector part projected on the axis, divided by
\* (norm + 1e-9).
twist_quaternion_item(q, axis) ==
    Only({ VDiv(tq, Add(VNorm(tq), Eps9)) :
           tq \in {<<q[1]>> \o Scale(axis, Dot(axis, SubSeq(q, 2, 4)))} })

\* The same results with the summed angle-axis divided by the first
\* component of the axis in place of the sum of the three.
twist_results_first_component(axes, twist_quaternion) ==
    Only({ [twist_rotation |-> quaternion_to_rotation_matrix(twist_quaternion),
            twist_angle |->
                Tensor(<<Len(axes), 1>>,
                       [b \in 1..Len(axes) |->
                           ADiv(ASum(Rows(twist_aa.data, 3)[b]), axes[b][1])])] :
           twist_aa \in {quaternion_to_angle_axis(twist_quaternion)} })

\* twist_rotation and twist_angle from the twist quaternions and the
\* normalised axes.
twist_results(axes, twist_quaternion) ==
    Only({ [twist_rotation |-> quaternion_to_rotation_matrix(twist_quaternion),
            twist_angle |->
                Tensor(<<Len(axes), 1>>,
                       [b \in 1..Len(axes) |->
                           ADiv(ASum(Rows(twist_aa.data, 3)[b]), SumSeq(axes[b]))])] :
           twist_aa \in {quaternion_to_angle_axis(twist_quaternion)} })

compute_twist_rotation(rotation_matrix, twist_axis) ==
    Only({ IF IsErr(quaternion) THEN quaternion
           ELSE Only({ twist_results(axes,
                           Tensor(<<Len(axes), 4>>,
                                  Flat([b \in 1..Len(axes) |->
                                           twist_quaternion_item(
                                               Rows(quaternion.data, 4)[b], axes[b])], 4))) :
                       axes \in {[b \in 1..twist_axis.shape[1] |->
                                    normalized_twist_axis(Rows(twist_axis.data, 3)[b])]} }) :
           quaternion \in {rotation_matrix_to_quaternion(rotation_matrix, Eps6)} })

\* Rotations by an angle theta, 0 <= theta < pi, about the direction of
\* their vector part: integer quaternions (w, x, y, z) with w > 0 whose norm
\* and whose vector part's length are integers.
TwistQuats ==
    << <<1, 0, 0, 0>>, <<4, 1, 2, 2>>, <<4, -1, -2, -2>>, <<3, 4, 0, 0>>, <<3, 0, -4, 0>>,
       <<4, 0, 0, 3>>, <<12, 3, 4, 0>>, <<12, -4, 0, 3>>, <<5, 0, 0, 12>> >>

VectorLength(p) == ISqrt(p[2] * p[2] + p[3] * p[3] + p[4] * p[4])

\* The direction of the axis (any direction for the identity).
AxisDir(p) == IF VectorLength(p) = 0 THEN <<1, 2, 2>> ELSE <<p[2], p[3], p[4]>>

\* The axis is given as a multiple of that direction: as it is, reversed,
\* at unit length, and short (of length some 1e-9).
AxisScaleKinds == {"plain", "reversed", "unit", "short"}

AxisScale(p, kind) ==
    CASE kind = "plain" -> One
      [] kind = "reversed" -> Neg(One)
      [] kind = "unit" -> Rat(1, VectorLength(<<0>> \o AxisDir(p)))
      [] kind = "short" -> Eps9

TwistAxis(p, kind) == Scale([k \in 1..3 |-> Num(AxisDir(p)[k])], AxisScale(p, kind))

\* The angle of the rotation about the axis as given.
TwistTheta(p, kind) == MkA(Num(2 * Sign(AxisScale(p, kind))), VectorLength(p), p[1])

TwistQuat(j) == TwistQuats[((j - 1) % Len(TwistQuats)) + 1]

\* A batch of B pure twists starting at the j-th rotation.
TwistArgs(j, kind, B) ==
    [ rotation_matrix |-> Tensor(<<B, 3, 3>>, Flat([b \in 1..B |-> RotOf(TwistQuat(j + b - 1))], 9)),
      twist_axis |-> Tensor(<<B, 3>>, Flat([b \in 1..B |-> TwistAxis(TwistQuat(j + b - 1), kind)], 3)),
      theta |-> [b \in 1..B |-> TwistTheta(TwistQuat(j + b - 1), kind)] ]

InitTwist ==
    /\ fn = "compute_twist_rotation"
    /\ arg \in {TwistArgs(j, kind, B) :
                  j \in 1..Len(TwistQuats), kind \in AxisScaleKinds, B \in 1..MaxBatch}
    /\ pc = "start"
    /\ tmp = None /\ ret = None /\ i = 0 /\ trans = <<>>

CallComputeTwistRotation ==
    /\ pc = "start" /\ fn = "compute_twist_rotation"
    /\ ret' = compute_twist_rotation(arg.rotation_matrix, arg.twist_axis)
    /\ pc' = "done"
    /\ UNCHANGED <<fn, arg, tmp, i, trans>>

NextTwist == CallComputeTwistRotation

SpecTwist == InitTwist /\ [][NextTwist]_vars

\* Item b of the call is answered as a pure twist is to be: the twist
\* angle is theta and the twist rotation is the rotation given.
TwistRecovered(b) ==
    /\ ~IsErr(ret)
    /\ ret.twist_angle.data[b] = arg.theta[b]
    /\ \A k \in 1..9 : Close(Rows(ret.twist_rotation.data, 9)[b][k],
                             Rows(arg.rotation_matrix.data, 9)[b][k], Tol4)

AxisSum(b) == SumSeq(Rows(arg.twist_axis.data, 3)[b])

AxisNorm(b) == VNorm(Rows(arg.twist_axis.data, 3)[b])

\* C7: for a rotation R by an angle theta, |theta| < pi, about an axis a
\* whose components do not sum to zero, compute_twist_rotation(R, a)
\* returns the twist angle theta and the twist rotation R.
C7_PureTwist ==
    (pc = "done" /\ fn = "compute_twist_rotation") =>
        \A b \in 1..Len(arg.theta) : ~IsZero(AxisSum(b)) => TwistRecovered(b)

\* What holds of the code: the same for the axes against whose length
\* 1e-9 is nothing.
C7_PureTwistLongAxis ==
    (pc = "done" /\ fn = "compute_twist_rotation") =>
        \A b \in 1..Len(arg.theta) :
            (~IsZero(AxisSum(b)) /\ Add(AxisNorm(b), Eps9) = AxisNorm(b)) => TwistRecovered(b)

\* A call has returned for a short axis with another rotation than the one
\* it was given.
C7_ShortAxisTwist ==
    /\ pc = "done" /\ fn = "compute_twist_rotation"
    /\ Add(AxisNorm(1), Eps9) # AxisNorm(1)
    /\ ~IsZero(AxisSum(1))
    /\ ~IsErr(ret)
    /\ ~TwistRecovered(1)

----------------------------------------------------------------------------
(* rot6d_to_rotmat on joint-wise batches                                   *)

\* The matrices of item b, joint n of a (B, N, 6) input, computed alone.
JointMatrix(x, b, n) ==
    rot6d_to_rotmat_item(Rows(x.data, 6)[(b - 1) * x.shape[2] + n])

\* C11: for an input of shape (B, N, 6), rot6d_to_rotmat returns a tensor
\* of shape (B, N, 3, 3) for every N >= 1, N = 1 included; for an input of
\* shape (B, 6) it returns (B, 3, 3).
C11_JointwiseShape ==
    (pc = "done" /\ fn = "rot6d_to_rotmat" /\ Last(arg.shape) = 6) =>
        /\ Len(arg.shape) = 3 =>
              (~IsErr(ret) /\ ret.shape = <<arg.shape[1], arg.shape[2], 3, 3>>)
        /\ Len(arg.shape) = 2 =>
              (~IsErr(ret) /\ ret.shape = <<arg.shape[1], 3, 3>>)

\* What holds of the code: the shape is (B, N, 3, 3) for N >= 2 and
\* (B, 3, 3) for (B, 6), and in every case the matrices are those of the
\* items taken one by one, in order.
C11_JointwiseShapeSeveral ==
    (pc = "done" /\ fn = "rot6d_to_rotmat" /\ Last(arg.shape) = 6) =>
        /\ (Len(arg.shape) = 3 /\ arg.shape[2] >= 2) =>
              /\ ~IsErr(ret)
              /\ ret.shape = <<arg.shape[1], arg.shape[2], 3, 3>>
              /\ \A b \in 1..arg.shape[1] : \A n \in 1..arg.shape[2] :
                    Rows(ret.data, 9)[(b - 1) * arg.shape[2] + n] = JointMatrix(arg, b, n)
        /\ Len(arg.shape) = 2 =>
              (~IsErr(ret) /\ ret.shape = <<arg.shape[1], 3, 3>>)

\* A call on a (B, 1, 6) input has returned a tensor of three dimensions.
C11_SingleJointSqueezed ==
    /\ pc = "done" /\ fn = "rot6d_to_rotmat"
    /\ arg.shape = <<2, 1, 6>>
    /\ ~IsErr(ret)
    /\ ret.shape = <<2, 3, 3>>

----------------------------------------------------------------------------
(* projection, convert_to_full_img_cam                                     *)

\* One batch item of convert_to_full_img_cam: the weak-perspective triple
\* (s, tx, ty) of the crop becomes a translation in the full image.
full_img_cam_item(s, tx, ty, bbox_height, bbox_center, img_w, img_h, focal_length) ==
    LET res == Num(224)
        r == Div(bbox_height, res)
        tz == Div(Mul(Two, focal_length), Mul(Mul(r, res), s))
        cx == Div(Mul(Two, Sub(bbox_center[1], Div(img_w, Two))), Mul(s, bbox_height))
        cy == Div(Mul(Two, Sub(bbox_center[2], Div(img_h, Two))), Mul(s, bbox_height))
    IN  <<Add(tx, cx), Add(ty, cy), tz>>

\* pare_cam (B, 3), bbox_center (B, 2); bbox_height, img_w, img_h and
\* focal_length hold one value per item.
convert_to_full_img_cam(pare_cam, bbox_height, bbox_center, img_w, img_h, focal_length) ==
    LET B == pare_cam.shape[1]
        items == [b \in 1..B |->
                     full_img_cam_item(At2(pare_cam, b - 1, 0), At2(pare_cam, b - 1, 1),
                                       At2(pare_cam, b - 1, 2), bbox_height.data[b],
                                       Rows(bbox_center.data, 2)[b], img_w.data[b],
                                       img_h.data[b], focal_length.data[b])]
    IN  Tensor(<<B, 3>>, Flat(items, 3))

\* The translation of the identity-rotation weak-perspective camera:
\* (tx, ty, 2 * 5000 / (224 * s + 1e-9)).
iwp_translation(cam_sxy) ==
    LET B == cam_sxy.shape[1]
        items == [b \in 1..B |->
                     << At2(cam_sxy, b - 1, 1), At2(cam_sxy, b - 1, 2),
                        Div(Mul(Two, Num(5000)),
                            Add(Mul(Num(224), At2(cam_sxy, b - 1, 0)), Eps9)) >>]
    IN  Tensor(<<B, 3>>, Flat(items, 3))

\* The keys read from pred_camera before 'cam_t' is looked for.
FullModeKeys ==
    { "bbox_scale", "bbox_center", "img_w", "img_h", "crop_res",
      "cam_sxy", "cam_rotmat", "cam_intrinsics" }

\* cam_t of the full-perspective mode: the record's own, or the converted
\* triple; bbox_height = bbox_scale * 200, focal_length = K[:, 0, 0].
full_mode_cam_t(pred_camera) ==
    IF "cam_t" \in DOMAIN pred_camera THEN pred_camera.cam_t
    ELSE convert_to_full_img_cam(
             pred_camera.cam_sxy,
             Tensor(pred_camera.bbox_scale.shape,
                    Scale(pred_camera.bbox_scale.data, Num(200))),
             pred_camera.bbox_center, pred_camera.img_w, pred_camera.img_h,
             Tensor(<<pred_camera.cam_intrinsics.shape[1]>>,
                    [b \in 1..pred_camera.cam_intrinsics.shape[1] |->
                        At3(pred_camera.cam_intrinsics, b - 1, 0, 0)]))

\* pred_camera is a dict: a record whose domain is the set of its keys;
\* reading a key it does not hold raises KeyError.
projection(pred_joints, pred_camera, retain_z, iwp_mode) ==
    LET batch_size == pred_joints.shape[1]
    IN  IF iwp_mode
        THEN IF "cam_sxy" \notin DOMAIN pred_camera THEN Raise("KeyError")
             ELSE Only({ perspective_projection(
                             pred_joints,
                             Tensor(<<batch_size, 3, 3>>, Repeat(Identity3, batch_size)),
                             pred_cam_t, Scalar(Num(5000)),
                             Tensor(<<batch_size, 2>>, Repeat(<<Zero, Zero>>, batch_size)),
                             None, retain_z) :
                         pred_cam_t \in {iwp_translation(pred_camera.cam_sxy)} })
        ELSE IF \E key \in FullModeKeys : key \notin DOMAIN pred_camera
             THEN Raise("KeyError")
             ELSE Only({ perspective_projection(pred_joints, pred_camera.cam_rotmat, cam_t,
                                                None, None, pred_camera.cam_intrinsics, FALSE) :
                         cam_t \in {full_mode_cam_t(pred_camera)} })

\* pred_camera records: of the weak-perspective mode (the triple alone),
\* and of the full-perspective mode with the triple, with the triple and a
\* direct translation, and with the direct translation alone.
CameraKinds == {"iwp", "triple", "both", "direct"}

Triples == { <<One, Zero, Zero>>, <<Num(2), Rat(1, 2), Rat(-1, 4)>> }

FullCameraBase(bs) ==
    [ bbox_scale |-> Tensor(<<bs>>, [b \in 1..bs |-> Num(2)]),
      bbox_center |-> Tensor(<<bs, 2>>, Repeat(<<Num(300), Num(200)>>, bs)),
      img_w |-> Tensor(<<bs>>, [b \in 1..bs |-> Num(640)]),
      img_h |-> Tensor(<<bs>>, [b \in 1..bs |-> Num(480)]),
      crop_res |-> Num(224),
      cam_rotmat |-> Tensor(<<bs, 3, 3>>, Repeat(RotOf(<<1, 1, 0, 0>>), bs)),
      cam_intrinsics |->
          Tensor(<<bs, 3, 3>>,
                 Repeat(<<Num(2), Zero, Num(7), Zero, Num(2), Num(-5), Zero, Zero, One>>, bs)) ]

Camera(kind, sxy, bs) ==
    LET triple == [cam_sxy |-> Tensor(<<bs, 3>>, Repeat(sxy, bs))]
        direct == [cam_t |-> Tensor(<<bs, 3>>, Repeat(<<One, Num(-1), Num(2)>>, bs))]
    IN  CASE kind = "iwp" -> triple
          [] kind = "triple" -> FullCameraBase(bs) @@ triple
          [] kind = "both" -> FullCameraBase(bs) @@ triple @@ direct
          [] kind = "direct" -> FullCameraBase(bs) @@ direct

InitProjectionModes ==
    /\ fn = "projection"
    /\ arg \in { [ pred_joints |-> PointBatch(ps, bs),
                   pred_camera |-> Camera(kind, sxy, bs),
                   retain_z |-> z,
                   iwp_mode |-> m ] :
                   ps \in PointSets, bs \in 1..MaxBatch, kind \in CameraKinds,
                   sxy \in Triples, z \in BOOLEAN, m \in BOOLEAN }
    /\ pc = "start"
    /\ tmp = None /\ ret = None /\ i = 0 /\ trans = <<>>

CallProjection ==
    /\ pc = "start" /\ fn = "projection"
    /\ ret' = projection(arg.pred_joints, arg.pred_camera, arg.retain_z, arg.iwp_mode)
    /\ pc' = "done"
    /\ UNCHANGED <<fn, arg, tmp, i, trans>>

NextProjectionModes == CallProjection

SpecProjectionModes == InitProjectionModes /\ [][NextProjectionModes]_vars

Holds(record, keys) == keys \subseteq DOMAIN record

\* The full-perspective projection of the joints of arg under translation t.
FullProjectionWith(t) ==
    perspective_projection(arg.pred_joints, arg.pred_camera.cam_rotmat, t,
                           None, None, arg.pred_camera.cam_intrinsics, FALSE)

\* The translation converted from the triple by the bbox-to-full-image
\* formula.
ConvertedTranslation(cam) == full_mode_cam_t([k \in DOMAIN cam \ {"cam_t"} |-> cam[k]])

\* C12: with iwp_mode unset, projection uses the record's direct camera
\* translation when it carries one, without converting, and the converted
\* weak-perspective triple otherwise; a record with a direct translation
\* and no triple is projected, the triple being read only when the
\* translation is absent.
C12_FullPerspectiveRecord ==
    (pc = "done" /\ fn = "projection" /\ ~arg.iwp_mode
       /\ Holds(arg.pred_camera, FullModeKeys \ {"cam_sxy"})) =>
        /\ "cam_t" \in DOMAIN arg.pred_camera =>
              ret = FullProjectionWith(arg.pred_camera.cam_t)
        /\ ("cam_t" \notin DOMAIN arg.pred_camera /\ "cam_sxy" \in DOMAIN arg.pred_camera) =>
              ret = FullProjectionWith(ConvertedTranslation(arg.pred_camera))

\* What holds of the code: the same for the records that carry the triple,
\* with a direct translation or without one.
C12_TranslationChoice ==
    (pc = "done" /\ fn = "projection" /\ ~arg.iwp_mode
       /\ Holds(arg.pred_camera, FullModeKeys)) =>
        /\ "cam_t" \in DOMAIN arg.pred_camera =>
              /\ ret = FullProjectionWith(arg.pred_camera.cam_t)
              /\ ret # FullProjectionWith(ConvertedTranslation(arg.pred_camera))
        /\ "cam_t" \notin DOMAIN arg.pred_camera =>
              ret = FullProjectionWith(ConvertedTranslation(arg.pred_camera))

\* A record with a direct translation and no triple has been refused.
C12_DirectRecordRefused ==
    /\ pc = "done" /\ fn = "projection" /\ ~arg.iwp_mode
    /\ Holds(arg.pred_camera, (FullModeKeys \ {"cam_sxy"}) \cup {"cam_t"})
    /\ "cam_sxy" \notin DOMAIN arg.pred_camera
    /\ ret = Raise("KeyError")

\* C15: projection honours retain_z in both camera modes: three channels
\* per point when it is set, two when it is not, whether iwp_mode is set
\* or not.
C15_RetainZBothModes ==
    (pc = "done" /\ fn = "projection" /\ ~IsErr(ret)) =>
        ret.shape = <<arg.pred_joints.shape[1], arg.pred_joints.shape[2],
                      IF arg.retain_z THEN 3 ELSE 2>>

\* What holds of the code: the flag is honoured when iwp_mode is set, and
\* the result has two channels when it is not.
C15_RetainZWeakPerspectiveOnly ==
    (pc = "done" /\ fn = "projection" /\ ~IsErr(ret)) =>
        ret.shape = <<arg.pred_joints.shape[1], arg.pred_joints.shape[2],
                      IF arg.retain_z /\ arg.iwp_mode THEN 3 ELSE 2>>

\* A full-perspective call with retain_z set has returned two channels.
C15_FlagDropped ==
    /\ pc = "done" /\ fn = "projection"
    /\ ~arg.iwp_mode /\ arg.retain_z
    /\ ~IsErr(ret)
    /\ ret.shape[3] = 2

----------------------------------------------------------------------------
(* Branch selection in rotation_matrix_to_quaternion                       *)

\* The number of masks set for batch item b (from 0).
MasksSet(rotation_matrix, b) ==
    Cardinality({k \in 1..4 : branch_masks(rotation_matrix, b, Eps6)[k]})

\* The term under the root: t0 * mask_c0 + ... + t3 * mask_c3.
SelectedTerm(rotation_matrix, b) ==
    branch_terms(rotation_matrix, b)[BranchOf(rotation_matrix, b) + 1]

SquaredNorm(q) == SumSeq([k \in 1..Len(q) |-> Pow2(q[k])])

\* C13: for every proper rotation matrix and every batch element, exactly
\* one of the masks c0..c3 is set, the term of the selected branch is at
\* least 1 - eps (t + eps >= 1), and the quaternion returned has unit norm.
C13_BranchSelection ==
    (fn = "rotation_matrix_to_quaternion" /\ pc \in {"quaternion", "done"}) =>
        /\ ~IsErr(tmp)
        /\ \A b \in 0..(arg.shape[1] - 1) :
              /\ MasksSet(arg, b) = 1
              /\ ~Less(Add(SelectedTerm(arg, b), Eps6), One)
              /\ SquaredNorm(Rows(tmp.data, 4)[b + 1]) = One

\* A conversion has returned for a batch of two whose first item is a half
\* turn: its trace is -1, the term t3 of the trace branch is zero, and
\* another branch was taken.
C13_Witness ==
    /\ fn = "rotation_matrix_to_quaternion" /\ pc = "quaternion"
    /\ arg.shape[1] = 2
    /\ IsZero(branch_terms(arg, 0)[4])
    /\ BranchOf(arg, 0) # 3
    /\ MasksSet(arg, 0) = 1
    /\ SquaredNorm(Rows(tmp.data, 4)[1]) = One

\* The boundary of the first comparison is met too: an entry (2, 2) that
\* is exactly zero.
C13_WitnessZeroDiagonal ==
    /\ fn = "rotation_matrix_to_quaternion" /\ pc = "quaternion"
    /\ IsZero(At3(arg, 0, 2, 2))
    /\ BranchOf(arg, 0) \in {0, 1}

----------------------------------------------------------------------------
(* Degenerate inputs of the rotation conversions                           *)

\* Quaternions: all-zero, of the size of the guards, and ordinary ones.
QuatRows ==
    { <<Zero, Zero, Zero, Zero>>,
      <<Zero, Zero, Zero, Eps9>>,
      <<One, Zero, Zero, Zero>>,
      <<Zero, One, Zero, Zero>>,
      <<One, One, One, One>>,
      <<Num(-1), Num(2), Zero, Num(-2)>> }

RowBatches(rows, w) ==
    { Tensor(<<Len(b), w>>, Flat(b, w)) : b \in UNION {[1..B -> rows] : B \in 1..MaxBatch} }

\* Twist inputs: the j-th rotation or a half turn, with its own axis or
\* the zero axis.
DegenerateTwistArgs ==
    { [ rotation_matrix |-> Tensor(<<B, 3, 3>>, Repeat(RotOf(p), B)),
        twist_axis |-> Tensor(<<B, 3>>, Repeat(a, B)) ] :
        p \in {TwistQuats[j] : j \in 1..Len(TwistQuats)} \cup {<<0, 1, 0, 0>>},
        a \in {<<Zero, Zero, Zero>>, <<One, Num(2), Num(2)>>},
        B \in 1..MaxBatch }

EpsilonPolicyNames ==
    { "batch_rodrigues", "quat_to_rotmat", "quaternion_to_rotation_matrix",
      "quaternion_to_angle_axis", "compute_twist_rotation" }

InitDegenerate ==
    /\ \/ fn = "batch_rodrigues" /\ arg \in RowBatches(ThetaRows, 3)
       \/ /\ fn \in {"quat_to_rotmat", "quaternion_to_rotation_matrix",
                     "quaternion_to_angle_axis"}
          /\ arg \in RowBatches(QuatRows, 4)
       \/ fn = "compute_twist_rotation" /\ arg \in DegenerateTwistArgs
    /\ pc = "start"
    /\ tmp = None /\ ret = None /\ i = 0 /\ trans = <<>>

DegenerateBatchRodrigues ==
    /\ pc = "start" /\ fn = "batch_rodrigues"
    /\ ret' = batch_rodrigues(arg)
    /\ pc' = "done"
    /\ UNCHANGED <<fn, arg, tmp, i, trans>>

DegenerateQuatToRotmat ==
    /\ pc = "start" /\ fn = "quat_to_rotmat"
    /\ ret' = quat_to_rotmat(arg)
    /\ pc' = "done"
    /\ UNCHANGED <<fn, arg, tmp, i, trans>>

DegenerateQuaternionToRotationMatrix ==
    /\ pc = "start" /\ fn = "quaternion_to_rotation_matrix"
    /\ ret' = quaternion_to_rotation_matrix(arg)
    /\ pc' = "done"
    /\ UNCHANGED <<fn, arg, tmp, i, trans>>

DegenerateQuaternionToAngleAxis ==
    /\ pc = "start" /\ fn = "quaternion_to_angle_axis"
    /\ ret' = quaternion_to_angle_axis(arg)
    /\ pc' = "done"
    /\ UNCHANGED <<fn, arg, tmp, i, trans>>

DegenerateComputeTwistRotation ==
    /\ pc = "start" /\ fn = "compute_twist_rotation"
    /\ ret' = compute_twist_rotation(arg.rotation_matrix, arg.twist_axis)
    /\ pc' = "done"
    /\ UNCHANGED <<fn, arg, tmp, i, trans>>

NextDegenerate ==
    \/ DegenerateBatchRodrigues
    \/ DegenerateQuatToRotmat
    \/ DegenerateQuaternionToRotationMatrix
    \/ DegenerateQuaternionToAngleAxis
    \/ DegenerateComputeTwistRotation

SpecDegenerate == InitDegenerate /\ [][NextDegenerate]_vars

FiniteT(t) == \A k \in 1..Len(t.data) : IsFinite(t.data[k])

FiniteAngles(t) == \A k \in 1..Len(t.data) : AIsFinite(t.data[k])

\* No entry of the result is NaN or Inf.
FiniteResult ==
    /\ ~IsErr(ret)
    /\ CASE fn = "quaternion_to_angle_axis" -> FiniteAngles(ret)
         [] fn = "compute_twist_rotation" ->
                FiniteT(ret.twist_rotation) /\ FiniteAngles(ret.twist_angle)
         [] OTHER -> FiniteT(ret)

\* C14: every division by a norm or a trigonometric quantity in
\* batch_rodrigues, quat_to_rotmat, quaternion_to_rotation_matrix,
\* quaternion_to_angle_axis and compute_twist_rotation is guarded by an
\* epsilon or a branch, so that no input, the zero axis-angle vector, the
\* all-zero quaternion and the zero twist axis included, gives NaN or Inf.
C14_EpsilonPolicy ==
    (pc = "done" /\ fn \in EpsilonPolicyNames) => FiniteResult

\* What holds of the code: quaternion_to_angle_axis branches around the
\* zero case, and batch_rodrigues is finite on the zero vector.
C14_GuardedDivisions ==
    /\ (pc = "done" /\ fn = "quaternion_to_angle_axis") => FiniteResult
    /\ (pc = "done" /\ fn = "batch_rodrigues") =>
           \A b \in 1..arg.shape[1] :
               Rows(arg.data, 3)[b] = ZeroRow =>
                   \A k \in 1..9 : IsFinite(Rows(ret.data, 9)[b][k])

\* quat_to_rotmat has returned NaN for the all-zero quaternion.
C14_ZeroQuaternionNaN ==
    /\ pc = "done" /\ fn = "quat_to_rotmat"
    /\ arg = Tensor(<<1, 4>>, <<Zero, Zero, Zero, Zero>>)
    /\ \A k \in 1..9 : IsNaN(ret.data[k])

\* compute_twist_rotation has returned a NaN twist angle for the zero axis.
C14_ZeroAxisNaN ==
    /\ pc = "done" /\ fn = "compute_twist_rotation"
    /\ Rows(arg.twist_axis.data, 3)[1] = <<Zero, Zero, Zero>>
    /\ ~AIsFinite(ret.twist_angle.data[1])

----------------------------------------------------------------------------
(* The divisor of the twist angle                                          *)

\* Twist axes with and without zero components, with and without a zero
\* sum of components.
AxisRows ==
    { <<One, One, Num(-2)>>, <<Num(2), Num(-1), Num(-1)>>, <<Rat(1, 2), Rat(-1, 4), Rat(-1, 4)>>,
      <<One, Num(-1), Zero>>, <<Zero, Zero, Zero>>,
      <<One, Zero, Zero>>, <<Zero, Zero, Num(-1)>>, <<Num(3), Num(4), Zero>>,
      <<One, Num(2), Num(2)>>, <<One, One, One>>, <<Num(-1), Num(-2), Num(-2)>> }

InitTwistAxes ==
    /\ fn = "compute_twist_rotation"
    /\ arg \in { [ rotation_matrix |-> Tensor(<<B, 3, 3>>, Repeat(RotOf(TwistQuats[j]), B)),
                   twist_axis |-> Tensor(<<B, 3>>, Repeat(a, B)) ] :
                   j \in 1..Len(TwistQuats), a \in AxisRows, B \in 1..MaxBatch }
    /\ pc = "start"
    /\ tmp = None /\ ret = None /\ i = 0 /\ trans = <<>>

NextTwistAxes == CallComputeTwistRotation

SpecTwistAxes == InitTwistAxes /\ [][NextTwistAxes]_vars

NoZeroComponent(a) == \A k \in 1..3 : ~IsZero(a[k])

\* The divisor of the twist angle of item b: the sum of the components of
\* the normalised axis.
AngleDivisor(b) == SumSeq(normalized_twist_axis(Rows(arg.twist_axis.data, 3)[b]))

FiniteTwistAngle(b) ==
    /\ ~IsErr(ret)
    /\ IsFinite(AngleDivisor(b)) /\ ~IsZero(AngleDivisor(b))
    /\ AIsFinite(ret.twist_angle.data[b])

\* C16 as stated: when the twist axis has no zero component, the divisor
\* of the twist angle is non-zero and the twist angle is finite.
C16_NoZeroComponentSuffices ==
    (pc = "done" /\ fn = "compute_twist_rotation") =>
        \A b \in 1..arg.twist_axis.shape[1] :
            NoZeroComponent(Rows(arg.twist_axis.data, 3)[b]) => FiniteTwistAngle(b)

\* C16: when the components of the twist axis do not sum to zero, the
\* divisor of the twist angle is non-zero and the twist angle is finite,
\* whether the axis has zero components or not.
C16_NonZeroSumSuffices ==
    (pc = "done" /\ fn = "compute_twist_rotation") =>
        \A b \in 1..arg.twist_axis.shape[1] :
            ~IsZero(AxisSum(b)) => FiniteTwistAngle(b)

\* A call has returned a finite twist angle for the axis (0, 0, -1), two
\* of whose components are zero.
C16_Witness ==
    /\ pc = "done" /\ fn = "compute_twist_rotation"
    /\ arg.twist_axis.shape[1] = 2
    /\ Rows(arg.twist_axis.data, 3)[1] = <<Zero, Zero, Num(-1)>>
    /\ arg.rotation_matrix.data = Repeat(RotOf(<<4, 0, 0, 3>>), 2)
    /\ FiniteTwistAngle(1)
    /\ ret.twist_angle.data[1] = MkA(Num(-2), 3, 4)

\* A call has returned a twist angle that is not finite for the axis
\* (1, 1, -2), none of whose components is zero.
C16_ZeroSumAxis ==
    /\ pc = "done" /\ fn = "compute_twist_rotation"
    /\ Rows(arg.twist_axis.data, 3)[1] = <<One, One, Num(-2)>>
    /\ IsZero(AngleDivisor(1))
    /\ ~AIsFinite(ret.twist_angle.data[1])

----------------------------------------------------------------------------
(* Joint subset selection in estimate_translation                          *)

\* estimate_translation_np on batch item b (from 1) of the input a alone,
\* given the joints from index first on.
NpOnItem(a, b, first) ==
    LET kept == a.S.shape[2] - first
        f == IF IsNumber(a.focal_length) THEN a.focal_length.value
             ELSE a.focal_length.value[b]
        sz == IF IsNumber(a.img_size) THEN <<a.img_size.value, a.img_size.value>>
              ELSE a.img_size.value[b]
    IN  estimate_translation_np(
            [k \in 1..kept |-> [c \in 1..3 |-> At3(a.S, b - 1, first + k - 1, c - 1)]],
            [k \in 1..kept |-> [c \in 1..2 |-> At3(a.joints_2d, b - 1, first + k - 1, c - 1)]],
            [k \in 1..kept |-> At3(a.joints_2d, b - 1, first + k - 1, 2)],
            f, sz, a.rounded)

\* The input a with the 3D positions, 2D positions and confidences of the
\* joints 0..24 of every item replaced by v.
WithLeadingJoints(a, v) ==
    LET J == a.S.shape[2]
        put(t) == Tensor(t.shape, [j \in 1..Len(t.data) |->
                                      IF ((j - 1) \div 3) % J < GtStart THEN v ELSE t.data[j]])
    IN  [a EXCEPT !.S = put(a.S), !.joints_2d = put(a.joints_2d)]

\* Row b (from 1) of a (B, 3) result, as a tensor of its own.
RowOf(t, b) == Tensor(<<3>>, Rows(t.data, 3)[b])

\* C17: with use_all_kps unset, row i of the result of estimate_translation
\* is estimate_translation_np on the joints 25.. of item i alone, and is
\* the same for an input that differs in the joints 0..24 only; with
\* use_all_kps set it is estimate_translation_np on all joints of item i.
C17_JointSubset ==
    (pc = "done" /\ fn = "estimate_translation") =>
        /\ ~IsErr(ret)
        /\ ret.shape = <<arg.S.shape[1], 3>>
        /\ \A b \in 1..arg.S.shape[1] :
              IF arg.use_all_kps
              THEN RowOf(ret, b) = NpOnItem(arg, b, 0)
              ELSE /\ RowOf(ret, b) = NpOnItem(arg, b, GtStart)
                   /\ RowOf(ret, b) = NpOnItem(WithLeadingJoints(arg, Num(7)), b, GtStart)

\* A call with use_all_kps unset has returned, for two items whose joints
\* 0..24 are confident joints of their own, the translations the joints
\* 25.. were projected with.
C17_Witness ==
    /\ pc = "done" /\ fn = "estimate_translation"
    /\ ~arg.use_all_kps
    /\ arg.S.shape = <<2, GtStart + MaxJoints, 3>>
    /\ At3(arg.joints_2d, 0, 0, 2) = One
    /\ Rows(ret.data, 3)[1] = arg.t_star[1]
    /\ Rows(ret.data, 3)[2] = arg.t_star[2]
    /\ arg.t_star[1] # arg.t_star[2]

\* With use_all_kps set the joints 0..24 do enter: the same items give
\* another translation.
C17_WitnessAllJoints ==
    /\ pc = "done" /\ fn = "estimate_translation"
    /\ arg.use_all_kps
    /\ At3(arg.joints_2d, 0, 0, 2) = One
    /\ Rows(ret.data, 3)[1] # arg.t_star[1]
    /\ RowOf(ret, 1) = NpOnItem(arg, 1, 0)

====
